---- MODULE Spec2Model ----
(***************************************************************************)
(* Model of the relational-catalog introspection resources                 *)
(* (src/resources/resource_4..9): six operations keyed by a table-name     *)
(* parameter, each opening a connection to the SQLite store, issuing a     *)
(* sequence of read-only catalog round trips and returning an envelope.    *)
(*                                                                         *)
(* A request advances one catalog round trip at a time.  The sequence of   *)
(* round trips a handler issues on its exception-free path is computed     *)
(* from the catalog by the *Calls operators (the handlers' control flow);  *)
(* the payload by the _get_* / _extract_* operators (their data flow).     *)
(* Any round trip may raise sqlite3.Error.                                 *)
(***************************************************************************)
EXTENDS Integers, Sequences, FiniteSets, TLC

VARIABLES
    db,        \* the target store's catalog and rows (never written by a request)
    dbExists,  \* db_path.exists()
    op,        \* operation of the request in flight ("none" when idle)
    param,     \* its table_name parameter
    pc,        \* position of the handler
    conn,      \* "none" | "open" | "closed"
    done,      \* number of round trips of the plan already issued
    log,       \* the round trips issued so far, in order, with their outcome
    skipped,   \* plan positions whose sqlite3.Error an inner try swallowed
    exc,       \* exception propagating to the handler's except clauses
    result,    \* the returned envelope (NoResult until the handler returns)
    faults,    \* sqlite3.Error raises the environment may still inject
    other,     \* a second request, suspended between two of its steps
    arg_rows,      \* row count handed to a statistics helper called on its own
    arg_columns,   \* column count handed to it
    ret,           \* what the helper called on its own returned
    selected_resource,  \* ResourcesView.selected_resource
    selected_template,  \* ResourcesView.selected_template
    dynamic_form,       \* ResourcesView.dynamic_form
    _form_counter,      \* ResourcesView._form_counter
    container,     \* the children of #resource-form-container, in mount order
    read_disabled, \* disabled of #read-resource-button
    workers,       \* the on_list_view_selected workers: position and locals
    actual_uri     \* the URI the last press of the read button built

\* the state of the resources view
view == <<selected_resource, selected_template, dynamic_form, _form_counter,
          container, read_disabled, workers, actual_uri>>

vars == <<db, dbExists, op, param, pc, conn, done, log, skipped, exc, result, faults,
          other, arg_rows, arg_columns, ret, view>>

----------------------------------------------------------------------------
(* Bounds of the model *)

\* user tables in the catalog
MaxTables == 2
\* sqlite3.Error raises injected per request
MaxFaults == 1
\* foreign keys declared by one table
MaxFk == 2

----------------------------------------------------------------------------
(* Sequences *)

Range(s) == { s[i] : i \in 1..Len(s) }

RECURSIVE Flatten(_)
Flatten(ss) == IF ss = <<>> THEN <<>> ELSE Head(ss) \o Flatten(Tail(ss))

MapSeq(s, F(_)) == [i \in 1..Len(s) |-> F(s[i])]

Count(s, P(_)) == Cardinality({ i \in 1..Len(s) : P(s[i]) })

Min(a, b) == IF a <= b THEN a ELSE b

\* sequences over S of length 0..n
SeqsUpTo(S, n) == UNION { [1..k -> S] : k \in 0..n }

----------------------------------------------------------------------------
(* Strings: names and declared types are atoms; Spell gives their          *)
(* characters so that lower() and LIKE are computed, not assumed.          *)

Spell(s) ==
    CASE s = "users"  -> <<"u","s","e","r","s">>
      [] s = "orders" -> <<"o","r","d","e","r","s">>
      [] s = "items"  -> <<"i","t","e","m","s">>
      [] s = "tags"   -> <<"t","a","g","s">>
      [] s = "ghost"  -> <<"g","h","o","s","t">>
      [] s = "all"    -> <<"a","l","l">>
      [] s = "ALL"    -> <<"A","L","L">>
      [] s = "sqlite_sequence" ->
            <<"s","q","l","i","t","e","_","s","e","q","u","e","n","c","e">>
      [] s = "INTEGER"   -> <<"I","N","T","E","G","E","R">>
      [] s = "REAL"      -> <<"R","E","A","L">>
      [] s = "TEXT"      -> <<"T","E","X","T">>
      [] s = "DATETIME"  -> <<"D","A","T","E","T","I","M","E">>
      [] s = "TIMESTAMP" -> <<"T","I","M","E","S","T","A","M","P">>
      [] s = "NUMERIC"   -> <<"N","U","M","E","R","I","C">>
      [] s = "DECIMAL"   -> <<"D","E","C","I","M","A","L">>
      [] s = "Float"     -> <<"F","l","o","a","t">>
      [] s = "TIMEPOINT" -> <<"T","I","M","E","P","O","I","N","T">>
      [] s = "DATE"      -> <<"D","A","T","E">>
      [] s = "Time"      -> <<"T","i","m","e">>
      [] s = "int"       -> <<"i","n","t">>
      [] s = "real"      -> <<"r","e","a","l">>
      [] s = "numeric"   -> <<"n","u","m","e","r","i","c">>
      [] s = "decimal"   -> <<"d","e","c","i","m","a","l">>
      [] s = "float"     -> <<"f","l","o","a","t">>
      [] s = "date"      -> <<"d","a","t","e">>
      [] s = "time"      -> <<"t","i","m","e">>
      [] s = "timestamp" -> <<"t","i","m","e","s","t","a","m","p">>
      [] s = "sqlite"    -> <<"s","q","l","i","t","e">>
      [] s = ""          -> <<>>

LowerChar(c) ==
    CASE c = "A" -> "a" [] c = "D" -> "d" [] c = "E" -> "e" [] c = "G" -> "g"
      [] c = "I" -> "i" [] c = "L" -> "l" [] c = "M" -> "m" [] c = "N" -> "n"
      [] c = "P" -> "p" [] c = "R" -> "r" [] c = "S" -> "s" [] c = "T" -> "t"
      [] c = "X" -> "x" [] c = "C" -> "c" [] c = "F" -> "f" [] c = "O" -> "o"
      [] c = "U" -> "u"
      [] OTHER -> c

\* str.lower()
Lower(s) == [i \in 1..Len(Spell(s)) |-> LowerChar(Spell(s)[i])]

\* variant: the parameter is compared as it is
IsAllMutant(p) == p = "all"
\* table_name.lower() == "all"
IsAll(p) == Lower(p) = Spell("all")

\* name LIKE 'sqlite_%': "sqlite" (LIKE ignores ASCII case), then one
\* arbitrary character for the wildcard _, then anything
LikeSqlite(name) ==
    /\ Len(Spell(name)) >= 7
    /\ SubSeq(Lower(name), 1, 6) = Spell("sqlite")

\* Python's `kw in s` on the characters
Contains(chars, kw) ==
    \E i \in 1..(Len(chars) - Len(Spell(kw)) + 1) :
        SubSeq(chars, i, i + Len(Spell(kw)) - 1) = Spell(kw)

----------------------------------------------------------------------------
(* The target store.  A catalog is a record                                *)
(*   master : the sqlite_master rows of type 'table', in rowid order       *)
(*   cols   : table -> PRAGMA table_info rows  [name,type,notnull,dflt,pk] *)
(*   fks    : table -> PRAGMA foreign_key_list rows  [from, table, to]     *)
(*   idx    : table -> PRAGMA index_list rows [name,unique,origin,columns] *)
(*   rows   : table -> its rows, each a function column name -> value      *)

UserTables == <<"users", "orders", "items", "tags">>
HiddenTable == "sqlite_sequence"
\* a name no catalog of the model holds
MissingTable == "ghost"

\* stored values: SQLite integers, text (v orders the texts) and NULL
IntVal(n) == [k |-> "int", v |-> n]
TextVal(n) == [k |-> "text", v |-> n]
NullVal == [k |-> "null", v |-> 0]

NoDefault == "None"

Col(name, type, notnull, dflt, pk) ==
    [name |-> name, type |-> type, notnull |-> notnull, dflt |-> dflt, pk |-> pk]

\* definition texts: CREATE TABLE t (...) without and with one CHECK clause
PlainSql == <<"c", "ws", "(", "c", ")">>
CheckedSql == <<"c", "ws", "(", "c", "ws", "CHECK", "ws", "(", "c", ")", ")">>

\* the columns every table of the model declares
BaseCols ==
    << Col("id", "INTEGER", FALSE, NoDefault, 1),
       Col("ref_a", "INTEGER", TRUE, NoDefault, 0),
       Col("ref_b", "INTEGER", FALSE, NoDefault, 0),
       Col("ref_c", "INTEGER", FALSE, NoDefault, 0),
       Col("amount", "REAL", FALSE, "0", 0),
       Col("created", "DATETIME", TRUE, "CURRENT_TIMESTAMP", 0),
       Col("label", "TEXT", FALSE, NoDefault, 0) >>

\* the column the i-th foreign key of a table is declared on
FkColumn(i) == <<"ref_a", "ref_b", "ref_c">>[i]

Fk(from, table, to) == [from |-> from, table |-> table, to |-> to]

\* foreign keys on ref_a, ref_b, ... referencing the id of the given targets
FksTo(targets) == [i \in 1..Len(targets) |-> Fk(FkColumn(i), targets[i], "id")]

Index(name, unique, origin, columns) ==
    [name |-> name, unique |-> unique, origin |-> origin, columns |-> columns]

\* one row; kind says what the numeric column "amount" holds
Row(i, kind) ==
    [c \in { BaseCols[j].name : j \in 1..Len(BaseCols) } |->
        CASE c = "id"      -> IntVal(i)
          [] c = "amount"  -> IF kind = "text" THEN TextVal(i)
                              ELSE IF kind = "null" THEN NullVal ELSE IntVal(10 * i)
          [] c = "created" -> TextVal(i)
          [] c = "label"   -> TextVal(i)
          [] OTHER         -> IntVal(1)]

Rows(n, kind) == [i \in 1..n |-> Row(i, kind)]

HiddenCols == << Col("name", "", FALSE, NoDefault, 0), Col("seq", "", FALSE, NoDefault, 0) >>

\* a catalog from its user tables and their per-table metadata; with hidden,
\* sqlite_master also holds the internal table sqlite_sequence
Catalog(tables, hidden, cols, fks, idx, rows, sql) ==
    LET names == Range(tables) \cup (IF hidden THEN {HiddenTable} ELSE {})
    IN  [ master |-> IF hidden THEN <<HiddenTable>> \o tables ELSE tables,
          cols   |-> [t \in names |-> IF t = HiddenTable THEN HiddenCols ELSE cols[t]],
          fks    |-> [t \in names |-> IF t = HiddenTable THEN <<>> ELSE fks[t]],
          idx    |-> [t \in names |-> IF t = HiddenTable THEN <<>> ELSE idx[t]],
          rows   |-> [t \in names |-> IF t = HiddenTable THEN <<>> ELSE rows[t]],
          sql    |-> [t \in names |-> IF t = HiddenTable THEN <<"c", "(", "c", ")">> ELSE sql[t]] ]

----------------------------------------------------------------------------
(* Catalog accessor: the queries the handlers send to SQLite *)

\* variant: the table list without the NOT LIKE 'sqlite_%' filter
ListTablesMutant(d) == d.master
\* SELECT name FROM sqlite_master WHERE type='table' AND name NOT LIKE 'sqlite_%'
ListTables(d) == SelectSeq(d.master, LAMBDA n : ~LikeSqlite(n))

\* SELECT name FROM sqlite_master WHERE type='table' AND name=?   (fetchone)
TableExists(d, name) == name \in Range(d.master)

\* PRAGMA table_info(t)
TableInfo(d, t) == d.cols[t]

\* PRAGMA foreign_key_list(t)
ForeignKeyList(d, t) == d.fks[t]

\* PRAGMA index_list(t)
IndexList(d, t) == d.idx[t]

\* PRAGMA index_info(name): the columns of the index of that name
IndexInfo(d, name) ==
    LET owner == CHOOSE t \in DOMAIN d.idx : \E i \in 1..Len(d.idx[t]) : d.idx[t][i].name = name
        ix == CHOOSE i \in 1..Len(d.idx[owner]) : d.idx[owner][i].name = name
    IN  d.idx[owner][ix].columns

\* SELECT COUNT(*) FROM t
CountRows(d, t) == Len(d.rows[t])

----------------------------------------------------------------------------
(* Resource #6, relations://{table_name} *)

\* variant: the incoming entry takes its columns the wrong way round
IncomingOfMutant(d, table_name, other_table) ==
    MapSeq(SelectSeq(ForeignKeyList(d, other_table), LAMBDA fk : fk.table = table_name),
           LAMBDA fk : [ local_table |-> other_table,
                         local_column |-> fk.to,
                         foreign_column |-> fk.from,
                         relationship_type |-> "one_to_many",
                         constraint_name |-> <<"fk", other_table, fk.to>> ])
\* the entries other_table contributes: its foreign keys whose referenced
\* table is table_name
IncomingOf(d, table_name, other_table) ==
    MapSeq(SelectSeq(ForeignKeyList(d, other_table), LAMBDA fk : fk.table = table_name),
           LAMBDA fk : [ local_table |-> other_table,
                         local_column |-> fk.from,
                         foreign_column |-> fk.to,
                         relationship_type |-> "one_to_many",
                         constraint_name |-> <<"fk", other_table, fk.from>> ])

\* variant: the scan does not skip the table itself
ScannedTablesMutant(d, table_name) == ListTables(d)
\* the tables _get_incoming_relationships scans: every listed table but the
\* table itself
ScannedTables(d, table_name) ==
    SelectSeq(ListTables(d), LAMBDA other_table : other_table # table_name)

_get_incoming_relationships(d, table_name) ==
    Flatten(MapSeq(ScannedTables(d, table_name),
                   LAMBDA other_table : IncomingOf(d, table_name, other_table)))

_get_table_relationship_data(d, table_name) ==
    LET outgoing_relationships ==
            MapSeq(ForeignKeyList(d, table_name),
                   LAMBDA fk : [ local_column |-> fk.from,
                                 foreign_table |-> fk.table,
                                 foreign_column |-> fk.to,
                                 relationship_type |-> "many_to_one",
                                 constraint_name |-> <<"fk", table_name, fk.from>> ])
        incoming_relationships == _get_incoming_relationships(d, table_name)
    IN  [ table_name |-> table_name,
          outgoing_foreign_keys |-> outgoing_relationships,
          incoming_foreign_keys |-> incoming_relationships,
          total_relationships |-> Len(outgoing_relationships) + Len(incoming_relationships),
          can_join_to |-> MapSeq(outgoing_relationships, LAMBDA rel : rel.foreign_table),
          referenced_by |-> MapSeq(incoming_relationships, LAMBDA rel : rel.local_table) ]

----------------------------------------------------------------------------
(* Resource #4, schema://{table_name} *)

\* _get_available_tables (each resource module carries the same copy)
_get_available_tables(d) == ListTables(d)

_extract_table_info(d, table_name) ==
    LET columns_raw == TableInfo(d, table_name)
        columns == MapSeq(columns_raw,
                          LAMBDA col : [ name |-> col.name,
                                         type |-> col.type,
                                         not_null |-> col.notnull,
                                         default_value |-> col.dflt,
                                         primary_key |-> col.pk # 0 ])
        primary_keys == MapSeq(SelectSeq(columns, LAMBDA c : c.primary_key),
                               LAMBDA c : c.name)
        foreign_keys == MapSeq(ForeignKeyList(d, table_name),
                               LAMBDA fk : [ column |-> fk.from,
                                             references_table |-> fk.table,
                                             references_column |-> fk.to,
                                             on_update |-> "NO ACTION",
                                             on_delete |-> "NO ACTION" ])
        indexes == MapSeq(IndexList(d, table_name),
                          LAMBDA ix : [ name |-> ix.name,
                                        unique |-> ix.unique,
                                        columns |-> IndexInfo(d, ix.name) ])
    IN  [ name |-> table_name,
          columns |-> columns,
          primary_keys |-> primary_keys,
          foreign_keys |-> foreign_keys,
          indexes |-> indexes,
          column_count |-> Len(columns),
          has_relationships |-> Len(foreign_keys) > 0 ]

\* variant: a table's references to itself are left out
SchemaRelationshipsMutant(table_name, table_info) ==
    MapSeq(SelectSeq(table_info.foreign_keys,
                     LAMBDA fk : fk.references_table # table_name),
           LAMBDA fk : [ from_table |-> table_name,
                         from_column |-> fk.column,
                         to_table |-> fk.references_table,
                         to_column |-> fk.references_column,
                         relationship_type |-> "many_to_one" ])
\* Collect foreign key relationships
SchemaRelationships(table_name, table_info) ==
    MapSeq(table_info.foreign_keys,
           LAMBDA fk : [ from_table |-> table_name,
                         from_column |-> fk.column,
                         to_table |-> fk.references_table,
                         to_column |-> fk.references_column,
                         relationship_type |-> "many_to_one" ])

_get_all_tables_schema(d) ==
    LET tables == ListTables(d)
        table_schemas == [t \in Range(tables) |-> _extract_table_info(d, t)]
        relationships ==
            Flatten(MapSeq(tables, LAMBDA t : SchemaRelationships(t, table_schemas[t])))
    IN  IF tables = <<>>
        THEN [ error |-> FALSE,
               message |-> "No tables found in analytics database",
               schema_type |-> "all_tables",
               table_count |-> 0,
               tables |-> <<>> ]
        ELSE [ error |-> FALSE,
               schema_type |-> "all_tables",
               table_count |-> Len(tables),
               tables |-> table_schemas,
               relationships |-> relationships,
               database_summary |->
                   [ total_tables |-> Len(tables),
                     table_names |-> tables,
                     total_relationships |-> Len(relationships),
                     schema_complexity |->
                         IF Len(tables) > 5 THEN "high"
                         ELSE IF Len(tables) > 2 THEN "medium" ELSE "simple" ],
               llm_context |-> "schema_all" ]

_get_single_table_schema(d, table_name) ==
    IF ~TableExists(d, table_name)
    THEN [ error |-> TRUE,
           error_type |-> "table_not_found",
           message |-> <<"Table not found in analytics database", table_name>>,
           table_name |-> table_name,
           available_tables |-> _get_available_tables(d) ]
    ELSE LET table_info == _extract_table_info(d, table_name)
         IN  [ error |-> FALSE,
               schema_type |-> "single_table",
               table_name |-> table_name,
               table_info |-> table_info,
               llm_context |->
                   [ column_count |-> Len(table_info.columns),
                     has_foreign_keys |-> Len(table_info.foreign_keys) > 0,
                     has_indexes |-> Len(table_info.indexes) > 0 ] ]

----------------------------------------------------------------------------
(* Resource #5, samples://{table_name} *)

SampleLimit == 5

\* variant: SELECT * without the LIMIT
_get_simple_sample_dataMutant(d, table_name) ==
    [ columns |-> MapSeq(TableInfo(d, table_name), LAMBDA col : col.name),
      rows |-> d.rows[table_name] ]
\* PRAGMA table_info for the column names, then SELECT * ... LIMIT 5
_get_simple_sample_data(d, table_name) ==
    [ columns |-> MapSeq(TableInfo(d, table_name), LAMBDA col : col.name),
      rows |-> SubSeq(d.rows[table_name], 1, Min(SampleLimit, Len(d.rows[table_name]))) ]

----------------------------------------------------------------------------
(* Resource #7, stats://{table_name} *)

NumericKeywords == <<"int", "real", "numeric", "decimal", "float">>
DateKeywords == <<"date", "time", "timestamp">>
NumericLimit == 5
DateLimit == 3

\* variant: a table of exactly 100 rows still counts as small
_categorize_table_sizeMutant(row_count) ==
    IF row_count = 0 THEN "empty"
    ELSE IF row_count <= 100 THEN "small"
    ELSE IF row_count < 10000 THEN "medium"
    ELSE IF row_count < 100000 THEN "large"
    ELSE "very_large"
_categorize_table_size(row_count) ==
    IF row_count = 0 THEN "empty"
    ELSE IF row_count < 100 THEN "small"
    ELSE IF row_count < 10000 THEN "medium"
    ELSE IF row_count < 100000 THEN "large"
    ELSE "very_large"

\* variant: no floor of 1 KB
_estimate_table_sizeMutant(row_count, column_count) ==
    (row_count * column_count * 50) \div 1024
\* max(1, bytes_estimate // 1024)
_estimate_table_size(row_count, column_count) ==
    LET bytes_estimate == row_count * column_count * 50
        kb == bytes_estimate \div 1024
    IN  IF kb > 1 THEN kb ELSE 1

\* variant: a table of exactly 1000 rows is still fast
_get_performance_tierMutant(row_count) ==
    IF row_count < 100 THEN "instant"
    ELSE IF row_count <= 1000 THEN "fast"
    ELSE IF row_count < 10000 THEN "moderate"
    ELSE IF row_count < 100000 THEN "slow"
    ELSE "optimization_required"
_get_performance_tier(row_count) ==
    IF row_count < 100 THEN "instant"
    ELSE IF row_count < 1000 THEN "fast"
    ELSE IF row_count < 10000 THEN "moderate"
    ELSE IF row_count < 100000 THEN "slow"
    ELSE "optimization_required"

_generate_optimization_hints(row_count, column_count, numeric_cols, date_cols) ==
    LET hints ==
            [ indexing_recommended |-> row_count > 1000,
              full_table_scan_cost |->
                  IF row_count < 1000 THEN "low"
                  ELSE IF row_count < 10000 THEN "high" ELSE "very_high",
              join_performance |->
                  IF row_count < 1000 THEN "excellent"
                  ELSE IF row_count < 10000 THEN "good" ELSE "requires_optimization" ]
        with_numeric ==
            IF numeric_cols # <<>>
            THEN hints @@ [numeric_columns |-> SubSeq(numeric_cols, 1, Min(3, Len(numeric_cols)))]
            ELSE hints
    IN  IF date_cols # <<>>
        THEN with_numeric @@ [date_columns |-> SubSeq(date_cols, 1, Min(2, Len(date_cols)))]
        ELSE with_numeric

\* the dict _get_basic_table_stats returns for a fetched row count
BasicStats(table_name, row_count) ==
    [ table_name |-> table_name,
      row_count |-> row_count,
      size_category |-> _categorize_table_size(row_count) ]

_get_basic_table_stats(d, table_name) ==
    BasicStats(table_name, CountRows(d, table_name))

\* any(num_type in col_type for num_type in [...]) on the lower-cased type
IsNumericType(type) ==
    \E i \in 1..Len(NumericKeywords) : Contains(Lower(type), NumericKeywords[i])

\* the elif branch: date-like only when not numeric
IsDateType(type) ==
    /\ ~IsNumericType(type)
    /\ \E i \in 1..Len(DateKeywords) : Contains(Lower(type), DateKeywords[i])

NumericColumns(d, table_name) ==
    MapSeq(SelectSeq(TableInfo(d, table_name), LAMBDA col : IsNumericType(col.type)),
           LAMBDA col : col.name)

DateColumns(d, table_name) ==
    MapSeq(SelectSeq(TableInfo(d, table_name), LAMBDA col : IsDateType(col.type)),
           LAMBDA col : col.name)

\* variant: the numeric loop runs over every numeric column
RangedNumericColumnsMutant(d, table_name) == NumericColumns(d, table_name)
\* numeric_columns[:5] and date_columns[:3]
RangedNumericColumns(d, table_name) ==
    SubSeq(NumericColumns(d, table_name), 1,
           Min(NumericLimit, Len(NumericColumns(d, table_name))))

RangedDateColumns(d, table_name) ==
    SubSeq(DateColumns(d, table_name), 1,
           Min(DateLimit, Len(DateColumns(d, table_name))))

\* the values of ... FROM t WHERE col IS NOT NULL
NonNullValues(d, table_name, col_name) ==
    MapSeq(SelectSeq(d.rows[table_name], LAMBDA r : r[col_name].k # "null"),
           LAMBDA r : r[col_name])

\* SQLite's order of stored values: integers before text
ValueLeq(x, y) == \/ x.k = "int" /\ y.k = "text"
                  \/ x.k = y.k /\ x.v <= y.v

\* MIN(col), MAX(col): NULL over no rows
SqlMin(vals) ==
    IF vals = <<>> THEN NullVal
    ELSE CHOOSE x \in Range(vals) : \A y \in Range(vals) : ValueLeq(x, y)

SqlMax(vals) ==
    IF vals = <<>> THEN NullVal
    ELSE CHOOSE x \in Range(vals) : \A y \in Range(vals) : ValueLeq(y, x)

RECURSIVE SqlSum(_)
SqlSum(vals) ==
    IF vals = <<>> THEN 0
    ELSE (IF Head(vals).k = "int" THEN Head(vals).v ELSE 0) + SqlSum(Tail(vals))

\* round(avg_val, 2) if avg_val else None, in hundredths; AVG(col) is the sum
\* (text counting 0.0) over the number of non-null values, NULL over no rows
RoundedAverage(vals) ==
    IF vals = <<>> \/ SqlSum(vals) = 0 THEN NullVal
    ELSE [k |-> "float", v |-> (200 * SqlSum(vals) + Len(vals)) \div (2 * Len(vals))]

\* max_val - min_val raises TypeError when either is a str
RangeRaisesTypeError(d, table_name, col_name) ==
    LET vals == NonNullValues(d, table_name, col_name)
    IN  /\ SqlMin(vals).k # "null"
        /\ SqlMax(vals).k # "null"
        /\ SqlMin(vals).k = "text" \/ SqlMax(vals).k = "text"

NumericRange(d, table_name, col_name) ==
    LET vals == NonNullValues(d, table_name, col_name)
        min_val == SqlMin(vals)
        max_val == SqlMax(vals)
    IN  [ min |-> min_val,
          max |-> max_val,
          average |-> RoundedAverage(vals),
          range_size |-> IF min_val.k # "null" /\ max_val.k # "null"
                         THEN IntVal(max_val.v - min_val.v) ELSE NullVal ]

DateRange(d, table_name, col_name) ==
    LET vals == NonNullValues(d, table_name, col_name)
        min_date == SqlMin(vals)
        max_date == SqlMax(vals)
    IN  [ earliest |-> min_date,
          latest |-> max_date,
          date_range |-> IF min_date.k # "null" /\ max_date.k # "null"
                         THEN [k |-> "str", v |-> <<min_date.v, max_date.v>>] ELSE NullVal ]

\* omitted: the columns whose range query raised sqlite3.Error (swallowed)
\* the dict _get_detailed_table_stats returns for what it fetched
DetailedStats(table_name, row_count, columns_raw, numeric_columns, date_columns, column_stats) ==
    [ table_name |-> table_name,
      row_count |-> row_count,
      column_count |-> Len(columns_raw),
      estimated_size_kb |-> _estimate_table_size(row_count, Len(columns_raw)),
      size_category |-> _categorize_table_size(row_count),
      column_statistics |-> column_stats,
      optimization_hints |->
          _generate_optimization_hints(row_count, Len(columns_raw),
                                       numeric_columns, date_columns),
      performance_tier |-> _get_performance_tier(row_count) ]

_get_detailed_table_stats(d, table_name, omitted) ==
    LET row_count == CountRows(d, table_name)
        columns_raw == TableInfo(d, table_name)
        numeric_columns == NumericColumns(d, table_name)
        date_columns == DateColumns(d, table_name)
        column_info(col) == [ type |-> Lower(col.type), nullable |-> ~col.notnull ]
        column_stats ==
            [ c \in { columns_raw[i].name : i \in 1..Len(columns_raw) } |->
                LET col == CHOOSE x \in Range(columns_raw) : x.name = c
                IN  IF c \in Range(RangedNumericColumns(d, table_name)) /\ c \notin omitted
                    THEN column_info(col) @@ NumericRange(d, table_name, c)
                    ELSE IF c \in Range(RangedDateColumns(d, table_name)) /\ c \notin omitted
                    THEN column_info(col) @@ DateRange(d, table_name, c)
                    ELSE column_info(col) ]
    IN  DetailedStats(table_name, row_count, columns_raw, numeric_columns,
                      date_columns, column_stats)

----------------------------------------------------------------------------
(* Resource #9, indexes://{table_name} *)

_get_table_indexes(d, table_name) ==
    LET indexes == MapSeq(IndexList(d, table_name),
                          LAMBDA ix : [ index_name |-> ix.name,
                                        columns |-> IndexInfo(d, ix.name),
                                        column_count |-> Len(IndexInfo(d, ix.name)),
                                        is_unique |-> ix.unique,
                                        origin |-> ix.origin ])
        unique_indexes == Count(indexes, LAMBDA ix : ix.is_unique)
    IN  [ table_name |-> table_name,
          indexes |-> indexes,
          index_summary |->
              [ total_indexes |-> Len(indexes),
                unique_indexes |-> unique_indexes,
                non_unique_indexes |-> Len(indexes) - unique_indexes ] ]

----------------------------------------------------------------------------
(* Resource #8, constraints://{table_name} *)

\* variant: no single-column unique index is taken for the primary key's
IsPrimaryKeyColumnMutant(d, table_name, column) == FALSE
\* Skip primary key indexes: the for/else over table_info breaks on the row
\* of the index's single column when its pk flag is set
IsPrimaryKeyColumn(d, table_name, column) ==
    \E i \in 1..Len(TableInfo(d, table_name)) :
        /\ TableInfo(d, table_name)[i].name = column
        /\ TableInfo(d, table_name)[i].pk # 0

ReportedAsUnique(d, table_name, ix) ==
    /\ ix.unique
    /\ IF Len(IndexInfo(d, ix.name)) = 1
       THEN ~IsPrimaryKeyColumn(d, table_name, IndexInfo(d, ix.name)[1])
       ELSE TRUE

_get_unique_constraints(d, table_name) ==
    MapSeq(SelectSeq(IndexList(d, table_name),
                     LAMBDA ix : ReportedAsUnique(d, table_name, ix)),
           LAMBDA ix : [ constraint_name |-> ix.name,
                         columns |-> IndexInfo(d, ix.name),
                         constraint_type |-> "UNIQUE" ])

\* The definition text is a sequence of tokens: "CHECK" (in any letter case),
\* "ws" (white space), "(", ")" and "c" (any other character).
\* re: CHECK\s*\(([^)]+)\)  matched at position i; 0 when it does not match
\* there, else the position of the closing parenthesis.
RECURSIVE SkipSpace(_, _)
SkipSpace(sql, i) ==
    IF i <= Len(sql) /\ sql[i] = "ws" THEN SkipSpace(sql, i + 1) ELSE i

RECURSIVE FirstClose(_, _)
FirstClose(sql, i) ==
    IF i > Len(sql) THEN 0
    ELSE IF sql[i] = ")" THEN i ELSE FirstClose(sql, i + 1)

CheckOpenAt(sql, i) == SkipSpace(sql, i + 1)

CheckMatchEnd(sql, i) ==
    LET open == CheckOpenAt(sql, i)
        close == FirstClose(sql, open + 1)
    IN  IF /\ sql[i] = "CHECK"
           /\ open <= Len(sql)
           /\ sql[open] = "("
           /\ close > open + 1
        THEN close ELSE 0

\* str.strip() of the captured group
RECURSIVE Strip(_)
Strip(toks) ==
    IF toks = <<>> THEN <<>>
    ELSE IF Head(toks) = "ws" THEN Strip(Tail(toks))
    ELSE IF toks[Len(toks)] = "ws" THEN Strip(SubSeq(toks, 1, Len(toks) - 1))
    ELSE toks

\* re.finditer: the non-overlapping matches, left to right
RECURSIVE CheckMatches(_, _)
CheckMatches(sql, i) ==
    IF i > Len(sql) THEN <<>>
    ELSE IF CheckMatchEnd(sql, i) = 0 THEN CheckMatches(sql, i + 1)
    ELSE <<Strip(SubSeq(sql, CheckOpenAt(sql, i) + 1, CheckMatchEnd(sql, i) - 1))>>
         \o CheckMatches(sql, CheckMatchEnd(sql, i) + 1)

\* variant: the entries are numbered from 0 (i instead of i+1)
_get_check_constraintsMutant(d, table_name, failed) ==
    IF failed \/ d.sql[table_name] = <<>> THEN <<>>
    ELSE LET matches == CheckMatches(d.sql[table_name], 1)
         IN  [ i \in 1..Len(matches) |->
                 [ constraint_name |-> <<"check", table_name, i - 1>>,
                   check_condition |-> matches[i],
                   constraint_type |-> "CHECK" ] ]
\* failed: the SELECT sql query raised (except Exception: pass)
_get_check_constraints(d, table_name, failed) ==
    IF failed \/ d.sql[table_name] = <<>> THEN <<>>
    ELSE LET matches == CheckMatches(d.sql[table_name], 1)
         IN  [ i \in 1..Len(matches) |->
                 [ constraint_name |-> <<"check", table_name, i>>,
                   check_condition |-> matches[i],
                   constraint_type |-> "CHECK" ] ]

\* variant: the foreign-key loop runs before the column loop
ColumnTagsMutant(d, table_name, col) ==
    MapSeq(SelectSeq(ForeignKeyList(d, table_name), LAMBDA fk : fk.from = col.name),
           LAMBDA fk : <<"FOREIGN KEY REFERENCES", fk.table, fk.to>>)
    \o (IF col.pk # 0 THEN << <<"PRIMARY KEY">> >> ELSE <<>>)
    \o (IF col.notnull THEN << <<"NOT NULL">> >> ELSE <<>>)
    \o (IF col.dflt # NoDefault THEN << <<"DEFAULT", col.dflt>> >> ELSE <<>>)
\* Build constraint list for this column, then add the foreign keys to it
ColumnTags(d, table_name, col) ==
    (IF col.pk # 0 THEN << <<"PRIMARY KEY">> >> ELSE <<>>)
    \o (IF col.notnull THEN << <<"NOT NULL">> >> ELSE <<>>)
    \o (IF col.dflt # NoDefault THEN << <<"DEFAULT", col.dflt>> >> ELSE <<>>)
    \o MapSeq(SelectSeq(ForeignKeyList(d, table_name), LAMBDA fk : fk.from = col.name),
              LAMBDA fk : <<"FOREIGN KEY REFERENCES", fk.table, fk.to>>)

\* variant: the NOT NULL columns are left out of the total
TotalConstraintsMutant(primary_keys, foreign_keys, unique_constraints, check_constraints, not_null_columns) ==
    Len(primary_keys) + Len(foreign_keys) + Len(unique_constraints)
    + Len(check_constraints)
\* Calculate total constraints
TotalConstraints(primary_keys, foreign_keys, unique_constraints, check_constraints, not_null_columns) ==
    Len(primary_keys) + Len(foreign_keys) + Len(unique_constraints)
    + Len(check_constraints) + not_null_columns

_get_table_constraints(d, table_name, check_failed) ==
    LET columns_info == TableInfo(d, table_name)
        foreign_keys == ForeignKeyList(d, table_name)
        primary_keys == MapSeq(SelectSeq(columns_info, LAMBDA col : col.pk # 0),
                               LAMBDA col : col.name)
        unique_constraints == _get_unique_constraints(d, table_name)
        check_constraints == _get_check_constraints(d, table_name, check_failed)
        not_null_columns == Count(columns_info, LAMBDA col : col.notnull)
    IN  [ table_name |-> table_name,
          column_constraints |->
              [ c \in { columns_info[i].name : i \in 1..Len(columns_info) } |->
                  LET col == CHOOSE x \in Range(columns_info) : x.name = c
                  IN  [ column_name |-> col.name,
                        data_type |-> col.type,
                        not_null |-> col.notnull,
                        primary_key |-> col.pk # 0,
                        default_value |-> col.dflt,
                        constraints |-> ColumnTags(d, table_name, col) ] ],
          table_constraints |->
              [ primary_keys |-> primary_keys,
                foreign_keys |->
                    MapSeq(foreign_keys,
                           LAMBDA fk : [ column |-> fk.from,
                                         references_table |-> fk.table,
                                         references_column |-> fk.to,
                                         constraint_name |-> <<"fk", table_name, fk.from>> ]),
                unique_constraints |-> unique_constraints,
                check_constraints |-> check_constraints ],
          constraint_summary |->
              [ total_constraints |->
                    TotalConstraints(primary_keys, foreign_keys, unique_constraints,
                                     check_constraints, not_null_columns),
                has_primary_key |-> primary_keys # <<>>,
                has_foreign_keys |-> foreign_keys # <<>>,
                has_unique_constraints |-> unique_constraints # <<>>,
                has_check_constraints |-> check_constraints # <<>>,
                nullable_columns |-> Len(columns_info) - not_null_columns,
                not_null_columns |-> not_null_columns ] ]

----------------------------------------------------------------------------
(* The round trips of each handler on its exception-free path, in order.   *)
(* try marks a round trip inside an inner try whose except swallows        *)
(* sqlite3.Error.                                                          *)

NoIndex == <<>>

Call(q, t) == [q |-> q, t |-> t, c |-> "", ix |-> NoIndex, try |-> FALSE]
IndexCall(t, name) == [q |-> "index_info", t |-> t, c |-> "", ix |-> name, try |-> FALSE]
RangeCall(q, t, c) == [q |-> q, t |-> t, c |-> c, ix |-> NoIndex, try |-> TRUE]
SqlCall(t) == [q |-> "sql", t |-> t, c |-> "", ix |-> NoIndex, try |-> TRUE]
ListCall == Call("list_tables", "")

\* variant: the extractor runs before the existence guard
GuardedCallsMutant(d, table_name, body) ==
    IF TableExists(d, table_name)
    THEN body \o <<Call("exists", table_name)>>
    ELSE <<Call("exists", table_name), ListCall>>
\* the existence guard, then either the table's extractor or the
\* available-table list of the table_not_found envelope
GuardedCalls(d, table_name, body) ==
    <<Call("exists", table_name)>>
    \o (IF TableExists(d, table_name) THEN body ELSE <<ListCall>>)

\* "all": _get_available_tables, then the extractor of each listed table
AllTablesCalls(d, PerTable(_)) ==
    <<ListCall>> \o Flatten(MapSeq(ListTables(d), PerTable))

ExtractTableInfoCalls(d, t) ==
    << Call("table_info", t), Call("foreign_key_list", t), Call("index_list", t) >>
    \o MapSeq(IndexList(d, t), LAMBDA ix : IndexCall(t, ix.name))

SchemaCalls(d, p) ==
    IF IsAll(p)
    THEN AllTablesCalls(d, LAMBDA t : ExtractTableInfoCalls(d, t))
    ELSE GuardedCalls(d, p, ExtractTableInfoCalls(d, p))

SampleCalls(d, p) ==
    GuardedCalls(d, p, << Call("table_info", p), Call("select_rows", p) >>)

RelationshipCalls(d, t) ==
    << Call("foreign_key_list", t), ListCall >>
    \o MapSeq(ScannedTables(d, t), LAMBDA other_table : Call("foreign_key_list", other_table))

RelationsCalls(d, p) ==
    IF IsAll(p)
    THEN AllTablesCalls(d, LAMBDA t : RelationshipCalls(d, t))
    ELSE GuardedCalls(d, p, RelationshipCalls(d, p))

DetailedStatsCalls(d, t) ==
    << Call("count", t), Call("table_info", t) >>
    \o MapSeq(RangedNumericColumns(d, t), LAMBDA c : RangeCall("range_num", t, c))
    \o MapSeq(RangedDateColumns(d, t), LAMBDA c : RangeCall("range_date", t, c))

StatsCalls(d, p) ==
    IF IsAll(p)
    THEN AllTablesCalls(d, LAMBDA t : <<Call("count", t)>>)
    ELSE GuardedCalls(d, p, DetailedStatsCalls(d, p))

UniqueConstraintCalls(d, t) ==
    <<Call("index_list", t)>>
    \o Flatten(MapSeq(SelectSeq(IndexList(d, t), LAMBDA ix : ix.unique),
                      LAMBDA ix : <<IndexCall(t, ix.name)>>
                                  \o (IF Len(IndexInfo(d, ix.name)) = 1
                                      THEN <<Call("table_info", t)>> ELSE <<>>)))

TableConstraintCalls(d, t) ==
    << Call("table_info", t), Call("foreign_key_list", t) >>
    \o UniqueConstraintCalls(d, t)
    \o <<SqlCall(t)>>

ConstraintsCalls(d, p) ==
    IF IsAll(p)
    THEN AllTablesCalls(d, LAMBDA t : TableConstraintCalls(d, t))
    ELSE GuardedCalls(d, p, TableConstraintCalls(d, p))

TableIndexCalls(d, t) ==
    <<Call("index_list", t)>>
    \o MapSeq(IndexList(d, t), LAMBDA ix : IndexCall(t, ix.name))

IndexesCalls(d, p) ==
    IF IsAll(p)
    THEN AllTablesCalls(d, LAMBDA t : TableIndexCalls(d, t))
    ELSE GuardedCalls(d, p, TableIndexCalls(d, p))

Ops == {"schema", "samples", "relations", "stats", "constraints", "indexes"}

Plan(d, o, p) ==
    CASE o = "schema"      -> SchemaCalls(d, p)
      [] o = "samples"     -> SampleCalls(d, p)
      [] o = "relations"   -> RelationsCalls(d, p)
      [] o = "stats"       -> StatsCalls(d, p)
      [] o = "constraints" -> ConstraintsCalls(d, p)
      [] o = "indexes"     -> IndexesCalls(d, p)

----------------------------------------------------------------------------
(* Envelopes *)

Now == "now"
DbPath == "analytics.db"
NoResult == [error |-> FALSE, pending |-> TRUE]

ResourceType(o) ==
    CASE o = "schema"      -> "database_schema"
      [] o = "samples"     -> "sample_data"
      [] o = "relations"   -> "table_relationships"
      [] o = "stats"       -> "table_statistics"
      [] o = "constraints" -> "database_constraints"
      [] o = "indexes"     -> "database_indexes"

ErrorInfo(o, p) ==
    [ resource_type |-> ResourceType(o),
      uri_template |-> <<o, "://{table_name}">>,
      parameter_received |-> p ]

SuccessInfo(o, p) ==
    ErrorInfo(o, p) @@ [ retrieved_at |-> Now,
                         learning_phase |-> o,
                         database_file |-> DbPath,
                         database_type |-> "SQLite" ]

ServerInfo(o) == [ server_name |-> "mcp-test-server", resource_purpose |-> o ]

\* if not db_path.exists(): return {...}
DatabaseNotFound(o, p) ==
    [ error |-> TRUE,
      error_type |-> "database_not_found",
      message |-> <<"Database not found at", DbPath>>,
      table_name |-> p,
      resource_info |-> ErrorInfo(o, p) @@ [expected_db_path |-> DbPath],
      timestamp |-> Now ]

\* except sqlite3.Error as e: return {...}
DatabaseError(o, p) ==
    [ error |-> TRUE,
      error_type |-> "database_error",
      message |-> "Database error",
      table_name |-> p,
      resource_info |-> ErrorInfo(o, p),
      timestamp |-> Now ]

\* except Exception as e: return {...}; schema and samples add exception_type
UnexpectedError(o, p, e) ==
    LET envelope == [ error |-> TRUE,
                      error_type |-> "unexpected_error",
                      message |-> "Unexpected error",
                      table_name |-> p,
                      resource_info |-> ErrorInfo(o, p),
                      timestamp |-> Now ]
    IN  IF o \in {"schema", "samples"}
        THEN envelope @@ [exception_type |-> e]
        ELSE envelope

\* the table_not_found return of samples, relations, stats, constraints, indexes
TableNotFound(d, o, p) ==
    [ error |-> TRUE,
      error_type |-> "table_not_found",
      message |-> <<"Table not found in database", p>>,
      table_name |-> p,
      available_tables |-> _get_available_tables(d),
      resource_info |-> ErrorInfo(o, p),
      timestamp |-> Now ]

\* relationships_data, stats_data, constraints_data, indexes_data: one entry
\* per listed table under "all", else the entry of the named table
PerTableData(d, p, Data(_)) ==
    IF IsAll(p) THEN [t \in Range(_get_available_tables(d)) |-> Data(t)]
    ELSE (p :> Data(p))

\* the columns of t whose range query raised inside its try
OmittedColumns(plan, skip, t) ==
    { plan[i].c : i \in { j \in skip : plan[j].t = t /\ plan[j].q \in {"range_num", "range_date"} } }

\* whether the definition-text query of t raised inside its try
CheckFailed(plan, skip, t) ==
    \E i \in skip : plan[i].q = "sql" /\ plan[i].t = t

\* get_database_schema: the extractor's dict, then resource_info and server_info
SchemaResult(d, p) ==
    (IF IsAll(p) THEN _get_all_tables_schema(d) ELSE _get_single_table_schema(d, p))
    @@ [ resource_info |-> SuccessInfo("schema", p),
         server_info |-> ServerInfo("schema") @@ [schema_extraction |-> TRUE] ]

SamplesResult(d, p) ==
    LET sample_data == _get_simple_sample_data(d, p)
    IN  [ error |-> FALSE,
          table_name |-> p,
          sample_rows |-> sample_data.rows,
          column_names |-> sample_data.columns,
          sample_size |-> Len(sample_data.rows),
          resource_info |-> SuccessInfo("samples", p),
          llm_context |-> "samples",
          server_info |-> ServerInfo("samples") ]

RelationsResult(d, p) ==
    [ error |-> FALSE,
      table_name |-> p,
      relationships |-> PerTableData(d, p, LAMBDA t : _get_table_relationship_data(d, t)),
      resource_info |-> SuccessInfo("relations", p),
      llm_context |-> "relations",
      server_info |-> ServerInfo("relations") ]

StatsResult(d, p, skip) ==
    [ error |-> FALSE,
      table_name |-> p,
      statistics |->
          IF IsAll(p)
          THEN PerTableData(d, p, LAMBDA t : _get_basic_table_stats(d, t))
          ELSE PerTableData(d, p, LAMBDA t :
                   _get_detailed_table_stats(d, t, OmittedColumns(StatsCalls(d, p), skip, t))),
      resource_info |-> SuccessInfo("stats", p),
      llm_context |-> "stats",
      server_info |-> ServerInfo("stats") ]

ConstraintsResult(d, p, skip) ==
    [ error |-> FALSE,
      table_name |-> p,
      constraints |->
          PerTableData(d, p, LAMBDA t :
              _get_table_constraints(d, t, CheckFailed(ConstraintsCalls(d, p), skip, t))),
      resource_info |-> SuccessInfo("constraints", p),
      llm_context |-> "constraints",
      server_info |-> ServerInfo("constraints") ]

IndexesResult(d, p) ==
    [ error |-> FALSE,
      table_name |-> p,
      indexes |-> PerTableData(d, p, LAMBDA t : _get_table_indexes(d, t)),
      resource_info |-> SuccessInfo("indexes", p),
      llm_context |-> "indexes",
      server_info |-> ServerInfo("indexes") ]

\* whether the request takes the existence guard and the guard finds nothing
GuardFails(d, o, p) == (o = "samples" \/ ~IsAll(p)) /\ ~TableExists(d, p)

\* what the handler returns when no exception reaches its except clauses
\* variant: samples://all returns the sample rows of every listed table
EnvelopeMutant(d, o, p, skip) ==
    IF o = "schema" THEN SchemaResult(d, p)
    ELSE IF o = "samples" /\ IsAll(p)
    THEN [ error |-> FALSE,
           table_name |-> p,
           sample_rows |-> Flatten(MapSeq(ListTables(d), LAMBDA t :
                                      _get_simple_sample_data(d, t).rows)),
           resource_info |-> SuccessInfo("samples", p) ]
    ELSE IF GuardFails(d, o, p) THEN TableNotFound(d, o, p)
    ELSE CASE o = "samples"     -> SamplesResult(d, p)
           [] o = "relations"   -> RelationsResult(d, p)
           [] o = "stats"       -> StatsResult(d, p, skip)
           [] o = "constraints" -> ConstraintsResult(d, p, skip)
           [] o = "indexes"     -> IndexesResult(d, p)
\* what the handler returns when no exception reaches its except clauses
Envelope(d, o, p, skip) ==
    IF o = "schema" THEN SchemaResult(d, p)
    ELSE IF GuardFails(d, o, p) THEN TableNotFound(d, o, p)
    ELSE CASE o = "samples"     -> SamplesResult(d, p)
           [] o = "relations"   -> RelationsResult(d, p)
           [] o = "stats"       -> StatsResult(d, p, skip)
           [] o = "constraints" -> ConstraintsResult(d, p, skip)
           [] o = "indexes"     -> IndexesResult(d, p)

----------------------------------------------------------------------------
(* Catalogs of the lifecycle specification *)

\* rows per table
MaxRows == 2

DefaultIndexes(t) ==
    << Index(<<t, "uq_ref_a">>, TRUE, "u", <<"ref_a">>),
       Index(<<t, "ix_created">>, FALSE, "c", <<"created", "label">>) >>

\* n user tables, every table but the first referencing the first when
\* linked; data says what the rows hold ("empty": no rows)
MainCatalog(n, hidden, linked, data) ==
    LET tables == SubSeq(UserTables, 1, n)
    IN  Catalog(tables, hidden,
                [t \in Range(tables) |-> BaseCols],
                [t \in Range(tables) |->
                    IF linked /\ t # tables[1] THEN FksTo(<<tables[1]>>) ELSE <<>>],
                [t \in Range(tables) |-> DefaultIndexes(t)],
                [t \in Range(tables) |-> IF data = "empty" THEN <<>> ELSE Rows(MaxRows, data)],
                [t \in Range(tables) |-> CheckedSql])

MainCatalogs ==
    { MainCatalog(n, hidden, linked, data) :
        n \in 0..MaxTables, hidden \in BOOLEAN, linked \in BOOLEAN,
        data \in {"empty", "int", "text", "null"} }

\* the table_name parameters a request may carry
Params == Range(SubSeq(UserTables, 1, MaxTables))
          \cup {MissingTable, "all", "ALL", HiddenTable}

----------------------------------------------------------------------------
(* The resources view of the inspector (tui/widgets/resources_view.py):    *)
(* a list of static resources and resource templates, a container for the  *)
(* parameter form of the selected template and the read button.  A URI is  *)
(* a sequence of tokens: literal text, {parameter} placeholders and the    *)
(* values typed into a form.                                               *)

Lit(text) == [kind |-> "lit", text |-> text]
Placeholder(name) == [kind |-> "param", text |-> name]
Typed(name) == [kind |-> "value", text |-> name]

\* Python's None
NoneObj == [kind |-> "None"]

\* the display prefix of a template's list item
TemplateIcon == Lit("[icon] ")

Resource(uri, name) == [uri |-> uri, name |-> name]
ResourceTemplate(uri_template, name) == [uri_template |-> uri_template, name |-> name]

\* self.resources and self.resource_templates as the server lists them
resources == << Resource(<<Lit("config://server")>>, "config") >>
resource_templates ==
    << ResourceTemplate(<<Lit("schema://"), Placeholder("table_name")>>, "schema"),
       ResourceTemplate(<<Lit("files://"), Placeholder("root"), Lit("/"), Placeholder("path*")>>,
                        "files") >>

\* _update_display: one ResourceItem per static resource, then one per
\* template, its uri carrying the display prefix
ListItems ==
    resources
    \o MapSeq(resource_templates,
              LAMBDA template : Resource(<<TemplateIcon>> \o template.uri_template,
                                         <<"[Template]", template.name>>))

\* re.search(r'\{[^}]+\}', resource.uri)
_is_resource_template(resource) ==
    \E i \in 1..Len(resource.uri) : resource.uri[i].kind = "param"

\* re.findall(r'\{([^}]+)\}', uri_template)
_extract_template_parameters(uri_template) ==
    MapSeq(SelectSeq(uri_template, LAMBDA tok : tok.kind = "param"), LAMBDA tok : tok.text)

\* the first template whose uri_template is the uri without display prefix
_get_template_by_uri(uri) ==
    LET clean_uri == SelectSeq(uri, LAMBDA tok : tok # TemplateIcon)
        matching == SelectSeq(resource_templates,
                              LAMBDA template : template.uri_template = clean_uri)
    IN  IF matching = <<>> THEN NoneObj ELSE matching[1]

\* param_name.rstrip('*')
CleanParam(param_name) ==
    CASE param_name = "path*" -> "path"
      [] OTHER -> param_name

\* the fields _show_resource_form builds from the template's parameters
FormFields(template) ==
    MapSeq(_extract_template_parameters(template.uri_template),
           LAMBDA param_name : [ name |-> CleanParam(param_name),
                                 label |-> param_name,
                                 original_param |-> param_name ])

\* DynamicForm(fields, id=form_id)
DynamicForm(fields, id) == [id |-> id, fields |-> fields]

\* DynamicForm.get_values(): the value typed into each field
get_values(form) ==
    [ name \in { form.fields[i].name : i \in 1..Len(form.fields) } |-> Typed(name) ]

\* the URI read for what is selected, given the form kept
ConstructResourceUri(resource, template, form) ==
    IF resource = NoneObj THEN <<>>
    ELSE IF ~_is_resource_template(resource) THEN resource.uri
    ELSE IF template = NoneObj \/ form = NoneObj THEN resource.uri
    ELSE LET parameter_values == get_values(form)
             original_parameters == _extract_template_parameters(template.uri_template)
             \* param_mapping.get(clean_name, clean_name)
             original(clean_name) ==
                 IF \E i \in 1..Len(original_parameters) :
                        CleanParam(original_parameters[i]) = clean_name
                 THEN original_parameters[
                          CHOOSE i \in 1..Len(original_parameters) :
                              /\ CleanParam(original_parameters[i]) = clean_name
                              /\ \A j \in (i + 1)..Len(original_parameters) :
                                    CleanParam(original_parameters[j]) # clean_name ]
                 ELSE clean_name
         IN  MapSeq(template.uri_template,
                    LAMBDA tok :
                        IF /\ tok.kind = "param"
                           /\ \E clean_name \in DOMAIN parameter_values :
                                 original(clean_name) = tok.text
                        THEN parameter_values[CHOOSE clean_name \in DOMAIN parameter_values :
                                                  original(clean_name) = tok.text]
                        ELSE tok)

_construct_resource_uri ==
    ConstructResourceUri(selected_resource, selected_template, dynamic_form)

\* _update_read_button_state: the values read_button.disabled may take
\* (is_valid() depends on what was typed into the form)
ReadButtonStates(resource, template, form) ==
    IF resource = NoneObj THEN {TRUE}
    ELSE IF template # NoneObj /\ form # NoneObj THEN BOOLEAN
    ELSE {FALSE}

Workers == {1, 2}

\* a worker that handles no selection
NoWorker == [pc |-> "idle", fields |-> <<>>]

\* ResourcesView.__init__ and compose
NoView ==
    /\ selected_resource = NoneObj
    /\ selected_template = NoneObj
    /\ dynamic_form = NoneObj
    /\ _form_counter = 0
    /\ container = <<>>
    /\ read_disabled = TRUE
    /\ workers = [w \in Workers |-> NoWorker]
    /\ actual_uri = <<>>

----------------------------------------------------------------------------
(* The request in flight *)

\* no handler has been called yet
IdleHandler ==
    /\ op = "none"
    /\ param = ""
    /\ pc = "idle"
    /\ conn = "none"
    /\ done = 0
    /\ log = <<>>
    /\ skipped = {}
    /\ exc = "none"
    /\ result = NoResult

\* the registers of a handler that has not been called
NoOther ==
    [ op |-> "none", param |-> "", pc |-> "idle", conn |-> "none", done |-> 0,
      log |-> <<>>, skipped |-> {}, exc |-> "none", result |-> NoResult ]

Idle ==
    /\ IdleHandler
    /\ other = NoOther
    /\ arg_rows = 0
    /\ arg_columns = 0
    /\ ret = NoResult
    /\ NoView

Init ==
    /\ dbExists \in BOOLEAN
    /\ db \in (IF dbExists THEN MainCatalogs ELSE {MainCatalog(0, FALSE, FALSE, "empty")})
    /\ faults = MaxFaults
    /\ Idle

Event(e) == [q |-> e, t |-> "", c |-> "", ix |-> NoIndex, try |-> FALSE, ok |-> TRUE]
Issued(call, ok) == call @@ [ok |-> ok]

ThePlan == Plan(db, op, param)

\* the handler is called: async def get_*(table_name)
Request(o, p) ==
    /\ pc \in {"idle", "done"}
    /\ op' = o
    /\ param' = p
    /\ pc' = "check_db"
    /\ conn' = "none"
    /\ done' = 0
    /\ log' = <<>>
    /\ skipped' = {}
    /\ exc' = "none"
    /\ result' = NoResult
    /\ UNCHANGED <<other, arg_rows, arg_columns, ret, view>>
    /\ UNCHANGED <<db, dbExists, faults>>

\* if not db_path.exists(): return the database_not_found envelope
CheckStore ==
    /\ pc = "check_db"
    /\ log' = Append(log, Event("path_exists"))
    /\ IF dbExists
       THEN /\ pc' = "connect"
            /\ UNCHANGED result
       ELSE /\ pc' = "done"
            /\ result' = DatabaseNotFound(op, param)
    /\ UNCHANGED <<other, arg_rows, arg_columns, ret, view>>
    /\ UNCHANGED <<db, dbExists, op, param, conn, done, skipped, exc, faults>>

\* conn = sqlite3.connect(str(db_path)); cursor = conn.cursor()
Connect ==
    /\ pc = "connect"
    /\ conn' = "open"
    /\ pc' = "run"
    /\ log' = Append(log, Event("connect"))
    /\ UNCHANGED <<other, arg_rows, arg_columns, ret, view>>
    /\ UNCHANGED <<db, dbExists, op, param, done, skipped, exc, result, faults>>

\* sqlite3.connect raises sqlite3.Error
ConnectFails ==
    /\ pc = "connect"
    /\ faults > 0
    /\ faults' = faults - 1
    /\ exc' = "sqlite3.Error"
    /\ pc' = "except"
    /\ log' = Append(log, [Event("connect") EXCEPT !.ok = FALSE])
    /\ UNCHANGED <<other, arg_rows, arg_columns, ret, view>>
    /\ UNCHANGED <<db, dbExists, op, param, conn, done, skipped, result>>

\* variant: the statement executed deletes the rows of the tables
QueryMutant ==
    /\ pc = "run"
    /\ done < Len(ThePlan)
    /\ log' = Append(log, Issued(ThePlan[done + 1], TRUE))
    /\ done' = done + 1
    /\ db' = [db EXCEPT !.rows = [t \in DOMAIN db.rows |-> <<>>]]
    /\ UNCHANGED <<other, arg_rows, arg_columns, ret, view>>
    /\ UNCHANGED <<dbExists, op, param, pc, conn, skipped, exc, result, faults>>

\* the next cursor.execute(...) / fetch of the handler succeeds; the
\* range_size of a numeric column holding text then raises TypeError
Query ==
    /\ pc = "run"
    /\ done < Len(ThePlan)
    /\ LET call == ThePlan[done + 1]
       IN  /\ log' = Append(log, Issued(call, TRUE))
           /\ IF call.q = "range_num" /\ RangeRaisesTypeError(db, call.t, call.c)
              THEN /\ exc' = "TypeError"
                   /\ pc' = "except"
                   /\ UNCHANGED done
              ELSE /\ done' = done + 1
                   /\ UNCHANGED <<exc, pc>>
    /\ UNCHANGED <<other, arg_rows, arg_columns, ret, view>>
    /\ UNCHANGED <<db, dbExists, op, param, conn, skipped, result, faults>>

\* variant: every failing round trip is swallowed and the handler goes on
QueryFailsMutant ==
    /\ pc = "run"
    /\ done < Len(ThePlan)
    /\ faults > 0
    /\ faults' = faults - 1
    /\ log' = Append(log, Issued(ThePlan[done + 1], FALSE))
    /\ skipped' = skipped \cup {done + 1}
    /\ done' = done + 1
    /\ UNCHANGED <<other, arg_rows, arg_columns, ret, view>>
    /\ UNCHANGED <<db, dbExists, op, param, conn, result, exc, pc>>

\* the next cursor.execute(...) raises sqlite3.Error: swallowed by the inner
\* try around it if there is one, else it propagates to the handler's except
QueryFails ==
    /\ pc = "run"
    /\ done < Len(ThePlan)
    /\ faults > 0
    /\ faults' = faults - 1
    /\ LET call == ThePlan[done + 1]
       IN  /\ log' = Append(log, Issued(call, FALSE))
           /\ IF call.try
              THEN /\ skipped' = skipped \cup {done + 1}
                   /\ done' = done + 1
                   /\ UNCHANGED <<exc, pc>>
              ELSE /\ exc' = "sqlite3.Error"
                   /\ pc' = "except"
                   /\ UNCHANGED <<skipped, done>>
    /\ UNCHANGED <<other, arg_rows, arg_columns, ret, view>>
    /\ UNCHANGED <<db, dbExists, op, param, conn, result>>

\* conn.close() after the last round trip
Close ==
    /\ pc = "run"
    /\ done = Len(ThePlan)
    /\ conn' = "closed"
    /\ pc' = "return"
    /\ log' = Append(log, Event("close"))
    /\ UNCHANGED <<other, arg_rows, arg_columns, ret, view>>
    /\ UNCHANGED <<db, dbExists, op, param, done, skipped, exc, result, faults>>

\* return result
Return ==
    /\ pc = "return"
    /\ result' = Envelope(db, op, param, skipped)
    /\ pc' = "done"
    /\ UNCHANGED <<other, arg_rows, arg_columns, ret, view>>
    /\ UNCHANGED <<db, dbExists, op, param, conn, done, log, skipped, exc, faults>>

\* variant: except Exception comes first and takes every exception
HandleExceptionMutant ==
    /\ pc = "except"
    /\ result' = UnexpectedError(op, param, exc)
    /\ pc' = "done"
    /\ UNCHANGED <<other, arg_rows, arg_columns, ret, view>>
    /\ UNCHANGED <<db, dbExists, op, param, conn, done, log, skipped, exc, faults>>

\* except sqlite3.Error / except Exception: return the error envelope
HandleException ==
    /\ pc = "except"
    /\ result' = IF exc = "sqlite3.Error" THEN DatabaseError(op, param)
                 ELSE UnexpectedError(op, param, exc)
    /\ pc' = "done"
    /\ UNCHANGED <<other, arg_rows, arg_columns, ret, view>>
    /\ UNCHANGED <<db, dbExists, op, param, conn, done, log, skipped, exc, faults>>

Next ==
    \/ \E o \in Ops, p \in Params : Request(o, p)
    \/ CheckStore
    \/ Connect
    \/ ConnectFails
    \/ Query
    \/ QueryFails
    \/ Close
    \/ Return
    \/ HandleException

Spec == Init /\ [][Next]_vars

----------------------------------------------------------------------------
(* Relationship specification: every foreign-key layout of up to MaxFk     *)
(* edges over the user tables, including self references, several edges    *)
(* between the same two tables and references to a table that does not     *)
(* exist; only relations:// requests, no injected failure.                 *)

RECURSIVE SumSeq(_)
SumSeq(s) == IF s = <<>> THEN 0 ELSE Head(s) + SumSeq(Tail(s))

RelCatalog(tables, targets) ==
    Catalog(tables, FALSE,
            [t \in Range(tables) |-> BaseCols],
            [t \in Range(tables) |-> FksTo(targets[t])],
            [t \in Range(tables) |-> <<>>],
            [t \in Range(tables) |-> <<>>],
            [t \in Range(tables) |-> PlainSql])

RelCatalogs ==
    UNION { { RelCatalog(SubSeq(UserTables, 1, n), targets) :
                targets \in { f \in [ Range(SubSeq(UserTables, 1, n)) ->
                                        SeqsUpTo(Range(SubSeq(UserTables, 1, n))
                                                 \cup {MissingTable}, MaxFk) ] :
                              SumSeq(MapSeq(SubSeq(UserTables, 1, n),
                                            LAMBDA t : Len(f[t]))) <= MaxFk } } :
            n \in 0..MaxTables }

InitRel ==
    /\ dbExists = TRUE
    /\ db \in RelCatalogs
    /\ faults = 0
    /\ Idle

NextRel ==
    \/ \E p \in Params : Request("relations", p)
    \/ CheckStore
    \/ Connect
    \/ Query
    \/ Close
    \/ Return

SpecRel == InitRel /\ [][NextRel]_vars

----------------------------------------------------------------------------
(* Constraint catalogs: one table whose primary key and indexes vary, and  *)
(* the constraints:// handler alone, no faults                             *)

MaxIdx == 2

PkLayouts == {"none", "single", "other", "composite"}

\* the pk field of PRAGMA table_info: 0, or the column's position in the key
PkPosition(layout, name) ==
    CASE layout = "single" /\ name = "id"       -> 1
      [] layout = "other" /\ name = "ref_a"     -> 1
      [] layout = "composite" /\ name = "id"    -> 1
      [] layout = "composite" /\ name = "ref_a" -> 2
      [] OTHER                                  -> 0

ConsCols(layout) ==
    MapSeq(BaseCols, LAMBDA col :
        Col(col.name, col.type, col.notnull, col.dflt, PkPosition(layout, col.name)))

\* the indexes a table may carry: the automatic index of its primary key,
\* UNIQUE constraints on one or two columns, and plain indexes
IndexChoices(t, layout) ==
    (IF layout = "none" THEN {}
     ELSE { Index(<<t, "autoindex_1">>, TRUE, "pk",
                  MapSeq(SelectSeq(ConsCols(layout), LAMBDA col : col.pk # 0),
                         LAMBDA col : col.name)) })
    \cup { Index(<<t, "uq_id">>, TRUE, "u", <<"id">>),
           Index(<<t, "uq_ref_a">>, TRUE, "u", <<"ref_a">>),
           Index(<<t, "uq_label">>, TRUE, "u", <<"label">>),
           Index(<<t, "uq_pair">>, TRUE, "u", <<"id", "ref_a">>),
           Index(<<t, "ix_id">>, FALSE, "c", <<"id">>),
           Index(<<t, "ix_created">>, FALSE, "c", <<"created", "label">>) }

ConsCatalog(layout, idx) ==
    LET tables == SubSeq(UserTables, 1, 1)
    IN  Catalog(tables, FALSE,
                [t \in Range(tables) |-> ConsCols(layout)],
                [t \in Range(tables) |-> FksTo(<<t>>)],
                [t \in Range(tables) |-> idx],
                [t \in Range(tables) |-> <<>>],
                [t \in Range(tables) |-> CheckedSql])

ConsCatalogs ==
    UNION { { ConsCatalog(layout, idx) :
                idx \in { s \in SeqsUpTo(IndexChoices(UserTables[1], layout), MaxIdx) :
                            \A i, j \in 1..Len(s) : s[i] = s[j] => i = j } } :
            layout \in PkLayouts }

InitCons ==
    /\ dbExists = TRUE
    /\ db \in ConsCatalogs
    /\ faults = 0
    /\ Idle

NextCons ==
    \/ \E p \in Params : Request("constraints", p)
    \/ CheckStore
    \/ Connect
    \/ Query
    \/ Close
    \/ Return

SpecCons == InitCons /\ [][NextCons]_vars

----------------------------------------------------------------------------
(* Two handlers at once: the server may be asked for a second resource     *)
(* while the first is between two round trips. Each handler has its own    *)
(* connection, cursor and local variables; the store is what they share.   *)
(* Between requests another program may change the store.                  *)

\* the local state of the running handler
Registers ==
    [ op |-> op, param |-> param, pc |-> pc, conn |-> conn, done |-> done,
      log |-> log, skipped |-> skipped, exc |-> exc, result |-> result ]

\* variant: the swallowed-error bookkeeping is shared by the two handlers
SwitchMutant ==
    /\ other # Registers
    /\ other' = Registers
    /\ op' = other.op
    /\ param' = other.param
    /\ pc' = other.pc
    /\ conn' = other.conn
    /\ done' = other.done
    /\ log' = other.log
    /\ exc' = other.exc
    /\ result' = other.result
    /\ UNCHANGED <<db, dbExists, faults, skipped, arg_rows, arg_columns, ret, view>>

\* the scheduler suspends the running handler and resumes the other one
Switch ==
    /\ other # Registers
    /\ other' = Registers
    /\ op' = other.op
    /\ param' = other.param
    /\ pc' = other.pc
    /\ conn' = other.conn
    /\ done' = other.done
    /\ log' = other.log
    /\ skipped' = other.skipped
    /\ exc' = other.exc
    /\ result' = other.result
    /\ UNCHANGED <<db, dbExists, faults, arg_rows, arg_columns, ret, view>>

ConcCatalogs == { MainCatalog(1, FALSE, FALSE, data) : data \in {"empty", "int"} }

ConcParams == {UserTables[1], MissingTable}

\* the handlers run side by side: one that swallows errors of its range
\* queries, one that only reads rows, one whose extractor holds the guard
ConcOps == {"stats", "samples", "schema"}

\* another program writes to analytics.db while no handler is running
CatalogChanges ==
    /\ pc \in {"idle", "done"}
    /\ other.pc \in {"idle", "done"}
    /\ db' \in ConcCatalogs \ {db}
    /\ UNCHANGED <<dbExists, op, param, pc, conn, done, log, skipped, exc, result,
                   faults, other, arg_rows, arg_columns, ret, view>>

InitConc ==
    /\ dbExists = TRUE
    /\ db \in ConcCatalogs
    /\ faults = MaxFaults
    /\ Idle

NextConc ==
    \/ \E o \in ConcOps, p \in ConcParams : Request(o, p)
    \/ CheckStore
    \/ Connect
    \/ ConnectFails
    \/ Query
    \/ QueryFails
    \/ Close
    \/ Return
    \/ HandleException
    \/ Switch
    \/ CatalogChanges

SpecConc == InitConc /\ [][NextConc]_vars

----------------------------------------------------------------------------
(* The statistics helpers on their own: the dicts built from a row count   *)
(* and the columns of a table, for row counts around every threshold       *)

\* row counts on each side of a threshold
MaxOffset == 1
\* the smallest row counts
MaxSmallCount == 3

\* the row counts the helpers compare with
Thresholds == {0, 100, 1000, 10000, 100000}

RowCounts ==
    { n \in { t + k : t \in Thresholds, k \in (0 - MaxOffset)..MaxOffset } : n >= 0 }
    \cup 0..MaxSmallCount
    \cup {50000}

\* a table with the first n columns of the model and no foreign key or index
ColumnsOnly(n) ==
    Catalog(<<UserTables[1]>>, FALSE,
            (UserTables[1] :> SubSeq(BaseCols, 1, n)),
            (UserTables[1] :> <<>>),
            (UserTables[1] :> <<>>),
            (UserTables[1] :> <<>>),
            (UserTables[1] :> PlainSql))

InitSize ==
    /\ arg_rows \in RowCounts
    /\ arg_columns \in 1..Len(BaseCols)
    /\ ret = NoResult
    /\ dbExists = FALSE
    /\ db = MainCatalog(0, FALSE, FALSE, "empty")
    /\ faults = 0
    /\ other = NoOther
    /\ IdleHandler
    /\ NoView

\* _get_basic_table_stats once COUNT(*) returned arg_rows
CallBasic ==
    /\ ret = NoResult
    /\ ret' = BasicStats(UserTables[1], arg_rows)
    /\ UNCHANGED <<db, dbExists, op, param, pc, conn, done, log, skipped, exc, result,
                   faults, other, arg_rows, arg_columns, view>>

\* _get_detailed_table_stats once COUNT(*) returned arg_rows and table_info
\* returned arg_columns columns (no range is computed)
CallDetailed ==
    /\ ret = NoResult
    /\ LET d == ColumnsOnly(arg_columns)
           t == UserTables[1]
       IN  ret' = DetailedStats(t, arg_rows, TableInfo(d, t), NumericColumns(d, t),
                                DateColumns(d, t),
                                [ c \in { TableInfo(d, t)[i].name : i \in 1..arg_columns } |->
                                    "column_info" ])
    /\ UNCHANGED <<db, dbExists, op, param, pc, conn, done, log, skipped, exc, result,
                   faults, other, arg_rows, arg_columns, view>>

NextSize ==
    \/ CallBasic
    \/ CallDetailed

SpecSize == InitSize /\ [][NextSize]_vars

----------------------------------------------------------------------------
(* Sample catalogs: one table of 0 to MaxSampleRows rows, and the          *)
(* samples:// handler alone, no faults                                     *)

MaxSampleRows == 6

SampCatalog(n, hidden, kind) ==
    Catalog(<<UserTables[1]>>, hidden,
            (UserTables[1] :> BaseCols),
            (UserTables[1] :> <<>>),
            (UserTables[1] :> <<>>),
            (UserTables[1] :> Rows(n, kind)),
            (UserTables[1] :> PlainSql))

SampCatalogs ==
    { SampCatalog(n, hidden, kind) :
        n \in 0..MaxSampleRows, hidden \in BOOLEAN, kind \in {"int", "null"} }

InitSamp ==
    /\ dbExists = TRUE
    /\ db \in SampCatalogs
    /\ faults = 0
    /\ Idle

NextSamp ==
    \/ \E p \in Params : Request("samples", p)
    \/ CheckStore
    \/ Connect
    \/ Query
    \/ Close
    \/ Return

SpecSamp == InitSamp /\ [][NextSamp]_vars

----------------------------------------------------------------------------
(* CHECK-clause specification: one table whose definition text is missing  *)
(* or lists up to MaxClauses column definitions and CHECK clauses, with    *)
(* and without white space and nested parentheses; constraints:// only,    *)
(* with injected failures of the catalog round trips.                      *)

MaxClauses == 2

\* the pieces of a definition text:  a INTEGER              (no CHECK)
\*                                   CHECK (a > 0)
\*                                   check( a > 0 )
\*                                   CHECK (length(a) > 0)
\*                                   CHECK(a IN (1, 2))
ClausePieces ==
    { <<"c">>,
      <<"CHECK", "ws", "(", "c", ")">>,
      <<"CHECK", "(", "ws", "c", "ws", ")">>,
      <<"CHECK", "ws", "(", "c", "(", "c", ")", "c", ")">>,
      <<"CHECK", "(", "c", "ws", "(", "c", ")", ")">> }

\* CREATE TABLE t (piece, piece, ...)
DefinitionText(pieces) ==
    <<"c", "ws", "(">> \o Flatten(MapSeq(pieces, LAMBDA piece : piece \o <<"c">>)) \o <<")">>

DefinitionTexts ==
    {<<>>} \cup { DefinitionText(pieces) : pieces \in SeqsUpTo(ClausePieces, MaxClauses) }

CheckCatalog(text) ==
    LET tables == SubSeq(UserTables, 1, 1)
    IN  Catalog(tables, FALSE,
                [t \in Range(tables) |-> BaseCols],
                [t \in Range(tables) |-> <<>>],
                [t \in Range(tables) |-> <<>>],
                [t \in Range(tables) |-> <<>>],
                [t \in Range(tables) |-> text])

CheckCatalogs == { CheckCatalog(text) : text \in DefinitionTexts }

InitCheck ==
    /\ dbExists = TRUE
    /\ db \in CheckCatalogs
    /\ faults \in 0..MaxFaults
    /\ Idle

NextCheck ==
    \/ \E p \in {UserTables[1], "all"} : Request("constraints", p)
    \/ CheckStore
    \/ Connect
    \/ Query
    \/ QueryFails
    \/ Close
    \/ Return
    \/ HandleException

SpecCheck == InitCheck /\ [][NextCheck]_vars

----------------------------------------------------------------------------
(* Column specification: one table of up to MaxNumeric columns of numeric  *)
(* declared types and up to MaxDate of date-like declared types, in three  *)
(* column orders, empty or with rows; stats:// on that table only, with    *)
(* injected failures of the catalog round trips.                           *)

MaxNumeric == 6
MaxDate == 4

\* declared types holding a numeric keyword (TIMEPOINT holds "int" and
\* "time") and declared types holding a date keyword only
NumericTypes == <<"INTEGER", "REAL", "NUMERIC", "DECIMAL", "Float", "TIMEPOINT">>
DateTypes == <<"DATE", "DATETIME", "TIMESTAMP", "Time">>

NumericNames == <<"n1", "n2", "n3", "n4", "n5", "n6", "n7">>
DateNames == <<"d1", "d2", "d3", "d4", "d5">>

NumericCol(i) ==
    Col(NumericNames[i], NumericTypes[((i - 1) % Len(NumericTypes)) + 1], FALSE, NoDefault, 0)
DateCol(i) ==
    Col(DateNames[i], DateTypes[((i - 1) % Len(DateTypes)) + 1], FALSE, NoDefault, 0)

\* alternately one column of each sequence while both last
RECURSIVE Interleave(_, _)
Interleave(a, b) ==
    IF a = <<>> THEN b
    ELSE IF b = <<>> THEN a
    ELSE <<Head(a), Head(b)>> \o Interleave(Tail(a), Tail(b))

ColumnOrders == {"numeric_first", "date_first", "mixed"}

\* n numeric and m date-like columns and one TEXT column
TypedCols(n, m, order) ==
    LET nums == [i \in 1..n |-> NumericCol(i)]
        dates == [i \in 1..m |-> DateCol(i)]
        label == << Col("label", "TEXT", FALSE, NoDefault, 0) >>
    IN  CASE order = "numeric_first" -> nums \o label \o dates
          [] order = "date_first"    -> dates \o label \o nums
          [] order = "mixed"         -> Interleave(dates, nums) \o label

\* one row: integers in the numeric columns, text elsewhere
TypedRow(cols, i) ==
    [c \in { cols[j].name : j \in 1..Len(cols) } |->
        IF c \in Range(NumericNames) THEN IntVal(10 * i) ELSE TextVal(i)]

ColsCatalog(n, m, order, rows) ==
    LET tables == SubSeq(UserTables, 1, 1)
        cols == TypedCols(n, m, order)
    IN  Catalog(tables, FALSE,
                [t \in Range(tables) |-> cols],
                [t \in Range(tables) |-> <<>>],
                [t \in Range(tables) |-> <<>>],
                [t \in Range(tables) |-> [i \in 1..rows |-> TypedRow(cols, i)]],
                [t \in Range(tables) |-> PlainSql])

\* the column counts around the two limits
NumericCounts == {0, 1, NumericLimit, MaxNumeric}
DateCounts == {0, DateLimit, MaxDate}

ColsCatalogs ==
    { ColsCatalog(n, m, order, rows) :
        n \in NumericCounts, m \in DateCounts, order \in ColumnOrders, rows \in {0, 1} }

InitCols ==
    /\ dbExists = TRUE
    /\ db \in ColsCatalogs
    /\ faults \in {0, 1}
    /\ Idle

NextCols ==
    \/ Request("stats", UserTables[1])
    \/ CheckStore
    \/ Connect
    \/ Query
    \/ QueryFails
    \/ Close
    \/ Return
    \/ HandleException

SpecCols == InitCols /\ [][NextCols]_vars

----------------------------------------------------------------------------
(* Schema specification: the foreign-key layouts of the relationship       *)
(* specification, schema:// requests for all tables and for one table, no  *)
(* injected failure.                                                       *)

NextSchema ==
    \/ \E p \in {"all", "ALL", UserTables[1], MissingTable} : Request("schema", p)
    \/ CheckStore
    \/ Connect
    \/ Query
    \/ Close
    \/ Return

SpecSchema == InitRel /\ [][NextSchema]_vars

----------------------------------------------------------------------------
(* Column-tag specification: one table of two columns with every           *)
(* combination of primary-key flag, NOT NULL flag and default, and up to   *)
(* MaxFk foreign keys on them; constraints:// only, no injected failure.   *)

FlagChoices == [pk : BOOLEAN, notnull : BOOLEAN, dflt : {NoDefault, "0"}]

\* the two columns with the chosen flags; pk is the position in the key
FlaggedCols(a, b) ==
    << Col("id", "INTEGER", a.notnull, a.dflt, IF a.pk THEN 1 ELSE 0),
       Col("ref_a", "INTEGER", b.notnull, b.dflt,
           IF b.pk THEN (IF a.pk THEN 2 ELSE 1) ELSE 0) >>

\* a foreign key on either column, to the table itself or to another one
FkChoices(t) == { Fk(from, table, "id") : from \in {"id", "ref_a"}, table \in {t, MissingTable} }

TagCatalog(a, b, fks) ==
    LET tables == SubSeq(UserTables, 1, 1)
    IN  Catalog(tables, FALSE,
                [t \in Range(tables) |-> FlaggedCols(a, b)],
                [t \in Range(tables) |-> fks],
                [t \in Range(tables) |-> <<>>],
                [t \in Range(tables) |-> <<>>],
                [t \in Range(tables) |-> PlainSql])

TagCatalogs ==
    { TagCatalog(a, b, fks) :
        a \in FlagChoices, b \in FlagChoices, fks \in SeqsUpTo(FkChoices(UserTables[1]), MaxFk) }

InitTags ==
    /\ dbExists = TRUE
    /\ db \in TagCatalogs
    /\ faults = 0
    /\ Idle

NextTags ==
    \/ \E p \in {UserTables[1], "all"} : Request("constraints", p)
    \/ CheckStore
    \/ Connect
    \/ Query
    \/ Close
    \/ Return

SpecTags == InitTags /\ [][NextTags]_vars

----------------------------------------------------------------------------
(* Average specification: one table with one numeric column holding up to  *)
(* MaxAvgRows values, negative, zero, positive or NULL; stats:// on that    *)
(* table only, no injected failure.                                        *)

MaxAvgRows == 2

StoredValues == { IntVal(n) : n \in {0 - 1, 0, 1, 2} } \cup {NullVal}

AvgCatalog(values) ==
    LET tables == SubSeq(UserTables, 1, 1)
    IN  Catalog(tables, FALSE,
                [t \in Range(tables) |-> TypedCols(1, 0, "numeric_first")],
                [t \in Range(tables) |-> <<>>],
                [t \in Range(tables) |-> <<>>],
                [t \in Range(tables) |->
                    [i \in 1..Len(values) |-> [n1 |-> values[i], label |-> TextVal(i)]]],
                [t \in Range(tables) |-> PlainSql])

AvgCatalogs == { AvgCatalog(values) : values \in SeqsUpTo(StoredValues, MaxAvgRows) }

InitAvg ==
    /\ dbExists = TRUE
    /\ db \in AvgCatalogs
    /\ faults = 0
    /\ Idle

NextAvg ==
    \/ Request("stats", UserTables[1])
    \/ CheckStore
    \/ Connect
    \/ Query
    \/ Close
    \/ Return

SpecAvg == InitAvg /\ [][NextAvg]_vars

----------------------------------------------------------------------------
(* Resources-view specification: selections of list items, each handled by *)
(* a worker of its own (@work) that is suspended at every await, the form  *)
(* reporting a validation change, and presses of the read button.          *)

\* forms created by one run
MaxForms == 3

\* the workers suspended before the form of a template is created
FormsPending == { w \in Workers : workers[w].pc = "remove_children" }

\* the registers of the catalog resources, unused by the view
ResourcesIdle ==
    UNCHANGED <<db, dbExists, op, param, pc, conn, done, log, skipped, exc, result,
                faults, other, arg_rows, arg_columns, ret>>

\* on_list_view_selected up to its first await: the selection is stored;
\* for a template the fields are built and remove_children() is called in
\* _show_resource_form, for a static resource in _clear_resource_form
on_list_view_selected(w, item) ==
    /\ workers[w].pc \in {"idle", "done"}
    /\ _form_counter + Cardinality(FormsPending) < MaxForms
    /\ selected_resource' = item
    /\ IF _is_resource_template(item)
       THEN /\ selected_template' = _get_template_by_uri(item.uri)
            /\ IF selected_template' = NoneObj
               THEN /\ read_disabled' \in ReadButtonStates(item, NoneObj, dynamic_form)
                    /\ workers' = [workers EXCEPT ![w] = [pc |-> "done", fields |-> <<>>]]
                    /\ UNCHANGED container
               ELSE /\ container' = <<>>
                    /\ workers' = [workers EXCEPT ![w] =
                                      [pc |-> "remove_children",
                                       fields |-> FormFields(selected_template')]]
                    /\ UNCHANGED read_disabled
       ELSE /\ selected_template' = NoneObj
            /\ container' = <<>>
            /\ workers' = [workers EXCEPT ![w] = [pc |-> "clear", fields |-> <<>>]]
            /\ UNCHANGED read_disabled
    /\ UNCHANGED <<dynamic_form, _form_counter, actual_uri>>
    /\ ResourcesIdle

\* _show_resource_form after await remove_children(): the form is created
\* and mount() is called
ShowFormMounts(w) ==
    /\ workers[w].pc = "remove_children"
    /\ IF workers[w].fields # <<>>
       THEN /\ _form_counter' = _form_counter + 1
            /\ dynamic_form' = DynamicForm(workers[w].fields, _form_counter')
            /\ container' = Append(container, dynamic_form')
       ELSE /\ dynamic_form' = NoneObj
            /\ UNCHANGED <<_form_counter, container>>
    /\ workers' = [workers EXCEPT ![w].pc = "mount"]
    /\ UNCHANGED <<selected_resource, selected_template, read_disabled, actual_uri>>
    /\ ResourcesIdle

\* after await mount(): _update_read_button_state and the worker ends
ShowFormReturns(w) ==
    /\ workers[w].pc = "mount"
    /\ read_disabled' \in ReadButtonStates(selected_resource, selected_template, dynamic_form)
    /\ workers' = [workers EXCEPT ![w].pc = "done"]
    /\ UNCHANGED <<selected_resource, selected_template, dynamic_form, _form_counter,
                   container, actual_uri>>
    /\ ResourcesIdle

\* _clear_resource_form after await remove_children(): the form is dropped,
\* then _update_read_button_state and the worker ends
ClearFormReturns(w) ==
    /\ workers[w].pc = "clear"
    /\ dynamic_form' = NoneObj
    /\ read_disabled' \in ReadButtonStates(selected_resource, selected_template, NoneObj)
    /\ workers' = [workers EXCEPT ![w].pc = "done"]
    /\ UNCHANGED <<selected_resource, selected_template, _form_counter, container,
                   actual_uri>>
    /\ ResourcesIdle

\* a mounted form posts ValidationChanged
on_dynamic_form_validation_changed ==
    /\ container # <<>>
    /\ read_disabled' \in ReadButtonStates(selected_resource, selected_template, dynamic_form)
    /\ UNCHANGED <<selected_resource, selected_template, dynamic_form, _form_counter,
                   container, workers, actual_uri>>
    /\ ResourcesIdle

\* the enabled read button is pressed: _read_resource builds the URI
on_button_pressed ==
    /\ ~read_disabled
    /\ selected_resource # NoneObj
    /\ actual_uri' = _construct_resource_uri
    /\ UNCHANGED <<selected_resource, selected_template, dynamic_form, _form_counter,
                   container, read_disabled, workers>>
    /\ ResourcesIdle

InitView ==
    /\ dbExists = FALSE
    /\ db = MainCatalog(0, FALSE, FALSE, "empty")
    /\ faults = 0
    /\ Idle

NextView ==
    \/ \E w \in Workers, i \in 1..Len(ListItems) : on_list_view_selected(w, ListItems[i])
    \/ \E w \in Workers : ShowFormMounts(w)
    \/ \E w \in Workers : ShowFormReturns(w)
    \/ \E w \in Workers : ClearFormReturns(w)
    \/ on_dynamic_form_validation_changed
    \/ on_button_pressed

SpecView == InitView /\ [][NextView]_vars

\* a relations:// request has returned its relationships
RelationsReturned == pc = "done" /\ op = "relations" /\ ~result.error

Listed == Range(ListTables(db))

ColumnNames == { BaseCols[i].name : i \in 1..Len(BaseCols) }

\* the outgoing edges a.col -> b.ref that relationships(a) reports
OutgoingCount(a, col, b, ref) ==
    Count(_get_table_relationship_data(db, a).outgoing_foreign_keys,
          LAMBDA e : e.local_column = col /\ e.foreign_table = b /\ e.foreign_column = ref)

\* the incoming entries (a, col, ref) in the returned relationships of b
IncomingCount(b, a, col, ref) ==
    Count(result.relationships[b].incoming_foreign_keys,
          LAMBDA e : e.local_table = a /\ e.local_column = col /\ e.foreign_column = ref)

\* the returned incoming entries of b pair off with the outgoing edges of
\* the tables in from; every entry names a table of from
Bidirectional(b, from) ==
    /\ \A a \in from : \A col \in ColumnNames, ref \in ColumnNames :
          IncomingCount(b, a, col, ref) = OutgoingCount(a, col, b, ref)
    /\ \A i \in 1..Len(result.relationships[b].incoming_foreign_keys) :
          result.relationships[b].incoming_foreign_keys[i].local_table \in from

\* C1 as stated: for all tables A and B of the catalog, A = B included, each
\* outgoing edge A.col -> B.refcol reported by relationships(A) has exactly
\* one corresponding entry in relationships(B).incoming_foreign_keys, and
\* every incoming entry corresponds to an outgoing edge of its local_table.
C1_AllPairs ==
    RelationsReturned =>
        \A b \in DOMAIN result.relationships \cap Listed : Bidirectional(b, Listed)

\* C1 amended: the same for all listed tables A and B with A # B; the
\* incoming scan skips the table itself, so a self-referencing edge is
\* reported as outgoing only.
C1_OtherTables ==
    RelationsReturned =>
        \A b \in DOMAIN result.relationships \cap Listed : Bidirectional(b, Listed \ {b})

\* a single-table request returned a table that another table references
C1_Witness ==
    /\ RelationsReturned
    /\ ~IsAll(param)
    /\ Len(result.relationships[param].incoming_foreign_keys) = 2
    /\ \E a \in Listed \ {param} : OutgoingCount(a, "ref_a", param, "id") = 1

TotalOutgoing ==
    SumSeq(MapSeq(ListTables(db),
                  LAMBDA t : Len(result.relationships[t].outgoing_foreign_keys)))

TotalIncoming ==
    SumSeq(MapSeq(ListTables(db),
                  LAMBDA t : Len(result.relationships[t].incoming_foreign_keys)))

\* outgoing edges that reference another table of the list
TotalOutgoingToOthers ==
    SumSeq(MapSeq(ListTables(db),
                  LAMBDA t : Count(result.relationships[t].outgoing_foreign_keys,
                                   LAMBDA e : e.foreign_table \in Listed \ {t})))

AllRelationsReturned == RelationsReturned /\ IsAll(param)

\* C9 as stated: in relations://all the outgoing edges summed over all
\* tables are as many as the incoming edges summed over all tables.
C9_TotalsSymmetric == AllRelationsReturned => TotalOutgoing = TotalIncoming

\* C9 amended: the incoming edges summed over all tables are as many as the
\* outgoing edges that reference another listed table.
C9_TotalsToOthers == AllRelationsReturned => TotalOutgoingToOthers = TotalIncoming

\* relations://all returned with a counted pair and an uncounted edge
C9_Witness ==
    /\ AllRelationsReturned
    /\ TotalIncoming >= 1
    /\ TotalOutgoing > TotalIncoming

----------------------------------------------------------------------------
(* Properties of the request lifecycle, checked under Spec *)

Returned == pc = "done"

AllOk == \A i \in 1..Len(log) : log[i].ok

\* the catalog's table list: the user tables of sqlite_master, in order
CatalogTableList == SelectSeq(db.master, LAMBDA n : n \in Range(UserTables))

\* the request names a table (it is not an all-tables request) and the
\* catalog holds no table of that name
NamesMissingTable ==
    /\ ~(op # "samples" /\ Lower(param) = Spell("all"))
    /\ param \notin Range(db.master)

\* C2: for each of the six operations, a request naming a table that is not
\* in the catalog returns error = true, error type table_not_found and
\* available_tables equal to the catalog's table list (the store exists and
\* no catalog call of the request failed).
C2_TableNotFound ==
    (Returned /\ dbExists /\ AllOk /\ NamesMissingTable) =>
        /\ result.error = TRUE
        /\ result.error_type = "table_not_found"
        /\ result.available_tables = CatalogTableList

\* schema:// of a missing table returned, the catalog holding user tables
\* and an internal table
C2_Witness ==
    /\ Returned /\ dbExists /\ AllOk /\ NamesMissingTable
    /\ op = "schema"
    /\ param = MissingTable
    /\ Len(db.master) > Len(result.available_tables)
    /\ Len(result.available_tables) = MaxTables

\* C3: every request that opens a connection closes it before it returns,
\* on every return path.
C3_ConnectionClosed == Returned => conn # "open"

SwallowedQueries == {"range_num", "range_date", "sql"}

\* C4: after a catalog call fails (other than a per-column range query of
\* statistics or the definition-text query of the CHECK extraction) nothing
\* more is issued, neither another query nor the same one again, and the
\* request returns an envelope with error = true; every returned envelope
\* carries a boolean error field.
C4_FailureEndsRequest ==
    /\ \A i \in 1..Len(log) :
          (~log[i].ok /\ log[i].q \notin SwallowedQueries) =>
              /\ i = Len(log)
              /\ pc \in {"except", "done"}
              /\ Returned => result.error = TRUE
    /\ Returned => result.error \in BOOLEAN

\* a constraints request returned after its index_info query failed
C4_Witness ==
    /\ Returned
    /\ op = "constraints"
    /\ Len(log) > 4
    /\ log[Len(log)].q = "index_info"
    /\ ~log[Len(log)].ok
    /\ result.error_type = "database_error"

\* the count query of a table failed in an all-tables statistics request
CountFailedInAll ==
    /\ op = "stats"
    /\ IsAll(param)
    /\ \E i \in 1..Len(log) : log[i].q = "count" /\ ~log[i].ok

\* C5: in stats://all, when the statistics query of one table fails the
\* statistics of every other table are still returned and the response is
\* not an error.
C5_OtherTablesSurvive ==
    (Returned /\ CountFailedInAll) =>
        /\ result.error = FALSE
        /\ \A i \in 1..Len(log) : \A t \in Listed :
              (log[i].q = "count" /\ ~log[i].ok /\ t # log[i].t) =>
                  t \in DOMAIN result.statistics

\* a detailed statistics request in which nothing failed except column
\* range computations (the range query, or the fields derived from it)
OnlyRangeErrors ==
    /\ op = "stats"
    /\ ~IsAll(param)
    /\ dbExists
    /\ TableExists(db, param)
    /\ exc \in {"none", "TypeError"}
    /\ \A i \in 1..Len(log) : ~log[i].ok => log[i].q \in {"range_num", "range_date"}

\* C6: an error while computing one column's range only omits that column's
\* range fields; the request still returns error = false with row_count and
\* size_category.
C6_RangeErrorsOmitColumn ==
    (Returned /\ OnlyRangeErrors) =>
        /\ result.error = FALSE
        /\ result.statistics[param].row_count = Len(db.rows[param])
        /\ result.statistics[param].size_category \in {"empty", "small"}

TableQueries ==
    { "table_info", "foreign_key_list", "index_list", "index_info", "sql",
      "count", "select_rows", "range_num", "range_date" }

TableScoped == op # "none" /\ (op = "samples" \/ ~IsAll(param))

\* C7: the store's existence is checked before the connection is opened or
\* any query is issued, and in a table-scoped request every column,
\* foreign-key, index, definition-text, row-count or row query comes after
\* the successful existence guard of the named table; none is issued for a
\* table that failed the guard.
C7_GuardFirst ==
    /\ log # <<>> => log[1].q = "path_exists"
    /\ ~dbExists => Len(log) <= 1
    /\ TableScoped =>
          \A i \in 1..Len(log) :
              log[i].q \in TableQueries =>
                  /\ param \in Range(db.master)
                  /\ \E j \in 1..(i - 1) :
                        log[j].q = "exists" /\ log[j].t = param /\ log[j].ok

\* a constraints request of an existing table returned after its queries
C7_Witness ==
    /\ Returned
    /\ op = "constraints"
    /\ TableScoped
    /\ result.error = FALSE
    /\ \E i \in 1..Len(log) : log[i].q = "sql" /\ log[i].t = param

\* a constraints:// request has returned its constraints
ConstraintsReturned == Returned /\ op = "constraints" /\ ~result.error

\* the names of the columns the catalog flags as primary key, in order
PrimaryKeyOf(t) ==
    MapSeq(SelectSeq(db.cols[t], LAMBDA col : col.pk # 0), LAMBDA col : col.name)

UniqueConstraintsOf(t) == result.constraints[t].table_constraints.unique_constraints

\* C8: the unique_constraints returned for a table never hold a
\* single-column entry whose column is the table's single-column primary
\* key.
C8_NoPrimaryKeyAsUnique ==
    ConstraintsReturned =>
        \A t \in DOMAIN result.constraints :
            \A i \in 1..Len(UniqueConstraintsOf(t)) :
                ~(/\ Len(PrimaryKeyOf(t)) = 1
                  /\ UniqueConstraintsOf(t)[i].columns = PrimaryKeyOf(t))

\* the table has a single-column primary key with a unique index on it and
\* another unique index, and only the other one is returned
C8_Witness ==
    /\ ConstraintsReturned
    /\ param = UserTables[1]
    /\ Len(PrimaryKeyOf(param)) = 1
    /\ \E i \in 1..Len(db.idx[param]) :
          db.idx[param][i].unique /\ db.idx[param][i].columns = PrimaryKeyOf(param)
    /\ Len(UniqueConstraintsOf(param)) = 1
    /\ Len(db.idx[param]) = 2

FailureFields ==
    {"error", "error_type", "message", "table_name", "resource_info", "timestamp"}

\* C10: every failure envelope carries the same fields: error, error type,
\* message, table name, resource info and timestamp, plus the
\* available-table list for table_not_found.
C10_FailureShape ==
    (Returned /\ result.error) =>
        DOMAIN result =
            FailureFields \cup (IF result.error_type = "table_not_found"
                                THEN {"available_tables"} ELSE {})

\* the error kinds of the specification, by the error_type the code returns
ErrorKind(error_type) ==
    CASE error_type = "database_not_found" -> "catalog_unreachable"
      [] error_type = "database_error"     -> "catalog_error"
      [] OTHER                             -> error_type

ErrorKinds == {"catalog_unreachable", "table_not_found", "catalog_error", "unexpected_error"}

\* what made the returned request fail
StoreMissing == ~dbExists
OpenFailed == log # <<>> /\ log[Len(log)].q = "connect" /\ ~log[Len(log)].ok
QueryFailed ==
    /\ log # <<>>
    /\ log[Len(log)].q \notin {"path_exists", "connect", "close"}
    /\ ~log[Len(log)].ok
    /\ exc = "sqlite3.Error"
OtherFailure == exc \notin {"none", "sqlite3.Error"}

\* C11 as stated: the error kind is catalog_unreachable when the store does
\* not exist or cannot be opened, table_not_found when the name is not in
\* the catalog, catalog_error when a query fails, unexpected_error for
\* anything else, and no other kind is returned.
C11_KindByCause ==
    (Returned /\ result.error) =>
        /\ ErrorKind(result.error_type) \in ErrorKinds
        /\ (StoreMissing \/ OpenFailed) <=> ErrorKind(result.error_type) = "catalog_unreachable"
        /\ QueryFailed <=> ErrorKind(result.error_type) = "catalog_error"
        /\ OtherFailure <=> ErrorKind(result.error_type) = "unexpected_error"
        /\ ErrorKind(result.error_type) = "table_not_found" => NamesMissingTable

\* C11 amended: catalog_unreachable only when the store does not exist; a
\* store that exists and cannot be opened gives catalog_error, like a
\* failing query.
C11_KindByCauseOpenIsCatalogError ==
    (Returned /\ result.error) =>
        /\ ErrorKind(result.error_type) \in ErrorKinds
        /\ StoreMissing <=> ErrorKind(result.error_type) = "catalog_unreachable"
        /\ (OpenFailed \/ QueryFailed) <=> ErrorKind(result.error_type) = "catalog_error"
        /\ OtherFailure <=> ErrorKind(result.error_type) = "unexpected_error"
        /\ ErrorKind(result.error_type) = "table_not_found" => NamesMissingTable

\* a request returned after sqlite3.connect raised
C11_Witness ==
    /\ Returned
    /\ result.error
    /\ OpenFailed
    /\ ErrorKind(result.error_type) = "catalog_error"

\* C12: no step of any request, successful or failing, changes the target
\* database: its tables, columns, keys, indexes and rows, and the store's
\* existence, stay as they were over any sequence of requests.
C12_StoreUnchanged == [][db' = db /\ dbExists' = dbExists]_vars

\* a second request returned rows of a table after its queries
C12_Witness ==
    /\ Returned
    /\ op = "samples"
    /\ result.error = FALSE
    /\ result.sample_size = MaxRows
    /\ faults < MaxFaults

\* the plan positions whose round trip failed in this request's own log
\* (the log starts with the store test and the connect)
OwnSkipped == { i \in 1..Len(ThePlan) : ~log[i + 2].ok }

\* C13: the payload a request returns is the one computed from its
\* operation, its parameter and the catalog as it is during the request
\* (and the range or CHECK queries that failed in this very request),
\* whatever requests ran before it or interleave their round trips with
\* it; after a catalog change an identical request returns the payload of
\* the new catalog.
C13_FreshPayload ==
    [][(pc = "return" /\ pc' = "done" /\ other' = other) =>
           result' = Envelope(db, op, param, OwnSkipped)]_vars

\* two identical requests, no failure in either, returned different
\* payloads: the catalog changed between them
C13_Witness ==
    /\ Returned
    /\ other.pc = "done"
    /\ other.op = op
    /\ other.param = param
    /\ op = "stats"
    /\ \A i \in 1..Len(log) : log[i].ok
    /\ \A i \in 1..Len(other.log) : other.log[i].ok
    /\ result.error = FALSE
    /\ other.result.error = FALSE
    /\ other.result # result

\* a statistics dict has been built, basic or detailed
StatsBuilt == ret # NoResult
DetailedBuilt == StatsBuilt /\ "performance_tier" \in DOMAIN ret

\* C14: in basic and in detailed statistics, size_category is empty for 0
\* rows, small below 100, medium below 10000, large below 100000 and
\* very_large from 100000 on.
C14_SizeCategory ==
    StatsBuilt =>
        /\ ret.row_count = arg_rows
        /\ (arg_rows = 0) <=> (ret.size_category = "empty")
        /\ (0 < arg_rows /\ arg_rows < 100) <=> (ret.size_category = "small")
        /\ (100 <= arg_rows /\ arg_rows < 10000) <=> (ret.size_category = "medium")
        /\ (10000 <= arg_rows /\ arg_rows < 100000) <=> (ret.size_category = "large")
        /\ (arg_rows >= 100000) <=> (ret.size_category = "very_large")

\* the basic statistics of a table of 50000 rows say large
C14_Witness ==
    /\ StatsBuilt
    /\ ~DetailedBuilt
    /\ arg_rows = 50000
    /\ ret.size_category = "large"

\* C15 as stated: the performance tier changes where the size category
\* changes.
C15_SameThresholds ==
    DetailedBuilt =>
        <<ret.size_category, ret.performance_tier>> \in
            { <<"empty", "instant">>, <<"small", "fast">>, <<"medium", "moderate">>,
              <<"large", "slow">>, <<"very_large", "optimization_required">> }

\* C15 amended: the performance tier has thresholds of its own, 100, 1000,
\* 10000 and 100000, so that an empty or small table is instant and a medium
\* table is fast below 1000 rows and moderate from 1000 rows on.
C15_TierThresholds ==
    DetailedBuilt =>
        /\ (arg_rows < 100) <=> (ret.performance_tier = "instant")
        /\ (100 <= arg_rows /\ arg_rows < 1000) <=> (ret.performance_tier = "fast")
        /\ (1000 <= arg_rows /\ arg_rows < 10000) <=> (ret.performance_tier = "moderate")
        /\ (10000 <= arg_rows /\ arg_rows < 100000) <=> (ret.performance_tier = "slow")
        /\ (arg_rows >= 100000) <=> (ret.performance_tier = "optimization_required")
        /\ <<ret.size_category, ret.performance_tier>> \in
              { <<"empty", "instant">>, <<"small", "instant">>, <<"medium", "fast">>,
                <<"medium", "moderate">>, <<"large", "slow">>,
                <<"very_large", "optimization_required">> }

\* the detailed statistics of a table of 1000 rows: medium and moderate
C15_Witness ==
    /\ DetailedBuilt
    /\ arg_rows = 1000
    /\ ret.size_category = "medium"
    /\ ret.performance_tier = "moderate"

\* C16: estimated_size_kb is max(1, floor(row_count * column_count * 50 /
\* 1024)); it is never below 1, and a table of 0 rows is empty with an
\* estimate of 1.
C16_EstimatedSize ==
    DetailedBuilt =>
        LET kb == (arg_rows * arg_columns * 50) \div 1024
        IN  /\ ret.column_count = arg_columns
            /\ ret.estimated_size_kb = (IF kb >= 1 THEN kb ELSE 1)
            /\ ret.estimated_size_kb >= 1
            /\ arg_rows = 0 => (ret.size_category = "empty" /\ ret.estimated_size_kb = 1)

\* a table of 0 rows and several columns
C16_Witness ==
    /\ DetailedBuilt
    /\ arg_rows = 0
    /\ arg_columns > 1
    /\ ret.estimated_size_kb = 1
    /\ ret.size_category = "empty"

\* a samples:// request of a table of the catalog has returned
SamplesOfExistingTable ==
    /\ Returned
    /\ op = "samples"
    /\ param \in Range(db.master)
    /\ AllOk

SamplesOfAll ==
    /\ Returned
    /\ op = "samples"
    /\ param = "all"
    /\ "all" \notin Range(db.master)
    /\ AllOk

\* C18: samples:// has no all-tables mode: "all" goes through the existence
\* guard like any table name, so the result is a table_not_found error with
\* the available-table list, and no row of any table is read or returned.
C18_SamplesAllNotFound ==
    SamplesOfAll =>
        /\ result.error = TRUE
        /\ result.error_type = "table_not_found"
        /\ result.available_tables = CatalogTableList
        /\ "sample_rows" \notin DOMAIN result
        /\ \E i \in 1..Len(log) : log[i].q = "exists" /\ log[i].t = "all"
        /\ \A i \in 1..Len(log) : log[i].q # "select_rows"

\* samples://all on a catalog whose table has rows
C18_Witness ==
    /\ SamplesOfAll
    /\ result.error = TRUE
    /\ result.available_tables = <<UserTables[1]>>
    /\ Len(db.rows[UserTables[1]]) > 0

NoDuplicate(s) == \A i, j \in 1..Len(s) : s[i] = s[j] => i = j

\* C19: in the relationships of a table, can_join_to holds each referenced
\* table once and referenced_by holds each referencing table once, also
\* when several foreign keys join the same two tables.
C19_DistinctTables ==
    RelationsReturned =>
        \A t \in DOMAIN result.relationships :
            /\ NoDuplicate(result.relationships[t].can_join_to)
            /\ NoDuplicate(result.relationships[t].referenced_by)

\* the summary and the table-level constraints returned for one table
SummaryOf(t) == result.constraints[t].constraint_summary
TableConstraintsOf(t) == result.constraints[t].table_constraints

\* C20: total_constraints is the number of primary-key columns plus the
\* numbers of foreign keys, unique constraints and CHECK constraints plus
\* the number of NOT NULL columns of the same response, so that a column
\* that is primary key and NOT NULL counts twice.
C20_TotalConstraints ==
    ConstraintsReturned =>
        \A t \in DOMAIN result.constraints :
            /\ SummaryOf(t).total_constraints =
                  Len(TableConstraintsOf(t).primary_keys)
                  + Len(TableConstraintsOf(t).foreign_keys)
                  + Len(TableConstraintsOf(t).unique_constraints)
                  + Len(TableConstraintsOf(t).check_constraints)
                  + SummaryOf(t).not_null_columns
            /\ Len(TableConstraintsOf(t).primary_keys) =
                  Cardinality({ i \in 1..Len(db.cols[t]) : db.cols[t][i].pk # 0 })
            /\ SummaryOf(t).not_null_columns =
                  Cardinality({ i \in 1..Len(db.cols[t]) : db.cols[t][i].notnull })

\* a table with a column that is primary key and NOT NULL, a foreign key,
\* a unique constraint and a CHECK constraint
C20_Witness ==
    /\ ConstraintsReturned
    /\ param = UserTables[1]
    /\ \E i \in 1..Len(db.cols[param]) : db.cols[param][i].pk # 0 /\ db.cols[param][i].notnull
    /\ Len(TableConstraintsOf(param).foreign_keys) = 1
    /\ Len(TableConstraintsOf(param).unique_constraints) = 1
    /\ Len(TableConstraintsOf(param).check_constraints) = 1
    /\ SummaryOf(param).total_constraints =
          Len(PrimaryKeyOf(param)) + 3 + SummaryOf(param).not_null_columns

----------------------------------------------------------------------------
(* CHECK clauses of a definition text, read with balanced parentheses *)

\* the position of the parenthesis closing the one opened before i
RECURSIVE ClosingParen(_, _, _)
ClosingParen(sql, i, depth) ==
    IF i > Len(sql) THEN 0
    ELSE IF sql[i] = ")" THEN (IF depth = 1 THEN i ELSE ClosingParen(sql, i + 1, depth - 1))
    ELSE IF sql[i] = "(" THEN ClosingParen(sql, i + 1, depth + 1)
    ELSE ClosingParen(sql, i + 1, depth)

\* a CHECK (...) clause starts at i
ClauseAt(sql, i) ==
    /\ sql[i] = "CHECK"
    /\ SkipSpace(sql, i + 1) <= Len(sql)
    /\ sql[SkipSpace(sql, i + 1)] = "("
    /\ ClosingParen(sql, SkipSpace(sql, i + 1) + 1, 1) # 0

ClauseBody(sql, i) ==
    SubSeq(sql, SkipSpace(sql, i + 1) + 1, ClosingParen(sql, SkipSpace(sql, i + 1) + 1, 1) - 1)

\* the conditions of the CHECK clauses without inner parentheses, in
\* textual order
RECURSIVE NonNestedChecks(_, _)
NonNestedChecks(sql, i) ==
    IF i > Len(sql) THEN <<>>
    ELSE IF ~ClauseAt(sql, i) THEN NonNestedChecks(sql, i + 1)
    ELSE (IF "(" \in Range(ClauseBody(sql, i)) THEN <<>> ELSE <<Strip(ClauseBody(sql, i))>>)
         \o NonNestedChecks(sql, ClosingParen(sql, SkipSpace(sql, i + 1) + 1, 1) + 1)

CheckConstraintsOf(t) == result.constraints[t].table_constraints.check_constraints

\* the definition text of t was not retrieved: its query raised
DefinitionQueryFailed(t) ==
    \E i \in 1..Len(log) : log[i].q = "sql" /\ log[i].t = t /\ ~log[i].ok

\* no round trip of the request failed but definition-text queries
OnlyDefinitionQueriesFailed ==
    \A i \in 1..Len(log) : ~log[i].ok => log[i].q = "sql"

\* C21: check_constraints has one entry per non-nested CHECK (...) clause
\* of the table's definition text, in textual order, named check_<table>_<k>
\* with k running 1..n without gaps; when the definition text is missing or
\* its retrieval fails, the list is empty and the constraints operation
\* still returns error = false.
C21_CheckConstraints ==
    /\ (Returned /\ op = "constraints" /\ OnlyDefinitionQueriesFailed) => ~result.error
    /\ ConstraintsReturned =>
          \A t \in DOMAIN result.constraints :
              LET expected == IF DefinitionQueryFailed(t) THEN <<>>
                              ELSE NonNestedChecks(db.sql[t], 1)
              IN  CheckConstraintsOf(t) =
                      [ k \in 1..Len(expected) |->
                          [ constraint_name |-> <<"check", t, k>>,
                            check_condition |-> expected[k],
                            constraint_type |-> "CHECK" ] ]

\* the text of a clause body up to its first closing parenthesis
UpToFirstClose(body) ==
    IF ")" \in Range(body)
    THEN SubSeq(body, 1, (CHOOSE i \in 1..Len(body) :
                            body[i] = ")" /\ \A j \in 1..(i - 1) : body[j] # ")") - 1)
    ELSE body

\* one condition per CHECK clause, nested or not, in textual order
RECURSIVE ClauseConditions(_, _)
ClauseConditions(sql, i) ==
    IF i > Len(sql) THEN <<>>
    ELSE IF ~ClauseAt(sql, i) THEN ClauseConditions(sql, i + 1)
    ELSE <<Strip(UpToFirstClose(ClauseBody(sql, i)))>>
         \o ClauseConditions(sql, ClosingParen(sql, SkipSpace(sql, i + 1) + 1, 1) + 1)

\* C21 (amended): check_constraints has one entry per CHECK (...) clause of
\* the table's definition text, with or without inner parentheses, in
\* textual order, named check_<table>_<k> with k running 1..n without gaps;
\* its condition is the clause's text up to the first closing parenthesis,
\* which is the whole condition only for a clause without inner
\* parentheses.  When the definition text is missing or its retrieval
\* fails, the list is empty and the operation still returns error = false.
C21_ClauseEntries ==
    /\ (Returned /\ op = "constraints" /\ OnlyDefinitionQueriesFailed) => ~result.error
    /\ ConstraintsReturned =>
          \A t \in DOMAIN result.constraints :
              LET expected == IF DefinitionQueryFailed(t) THEN <<>>
                              ELSE ClauseConditions(db.sql[t], 1)
              IN  CheckConstraintsOf(t) =
                      [ k \in 1..Len(expected) |->
                          [ constraint_name |-> <<"check", t, k>>,
                            check_condition |-> expected[k],
                            constraint_type |-> "CHECK" ] ]

\* a definition text with a CHECK clause without and one with inner
\* parentheses: two entries, the second one cut short
C21_Witness ==
    /\ ConstraintsReturned
    /\ param = UserTables[1]
    /\ Len(NonNestedChecks(db.sql[param], 1)) = 1
    /\ Len(CheckConstraintsOf(param)) = 2
    /\ CheckConstraintsOf(param)[1].check_condition = <<"c">>
    /\ CheckConstraintsOf(param)[2].check_condition = <<"c", "(", "c">>
    /\ CheckConstraintsOf(param)[2].constraint_name = <<"check", param, 2>>

----------------------------------------------------------------------------
(* Column classification of detailed statistics *)

\* a stats:// request for one table has returned its detailed statistics
DetailedReturned == Returned /\ op = "stats" /\ ~IsAll(param) /\ ~result.error

ColumnStatsOf(t) == result.statistics[t].column_statistics

\* the lower-cased declared type holds one of the keywords
TypeHolds(type, keywords) ==
    \E k \in 1..Len(keywords) : Contains(Lower(type), keywords[k])

\* the positions in the catalog's column list of the numeric columns and of
\* the date-like ones
NumericPositions(t) ==
    { i \in 1..Len(db.cols[t]) : TypeHolds(db.cols[t][i].type, NumericKeywords) }
DatePositions(t) ==
    { i \in 1..Len(db.cols[t]) :
        /\ ~TypeHolds(db.cols[t][i].type, NumericKeywords)
        /\ TypeHolds(db.cols[t][i].type, DateKeywords) }

\* the first n positions of S
FirstOf(S, n) == { i \in S : Cardinality({ j \in S : j < i }) < n }

\* the range query of column c was answered
RangeAnswered(kind, c) ==
    \E i \in 1..Len(log) : log[i].q = kind /\ log[i].c = c /\ log[i].ok

NumericFields == {"min", "max", "average", "range_size"}
DateFields == {"earliest", "latest", "date_range"}

\* C22: a column is numeric when its lower-cased declared type holds one of
\* int, real, numeric, decimal, float, otherwise date-like when it holds one
\* of date, time, timestamp; min, max and average are attached only to the
\* first 5 numeric columns in catalog order and earliest and latest only to
\* the first 3 date-like columns (to each of them whose range query was
\* answered), so no column carries both and at most 5 carry a numeric range
\* and at most 3 a date range.
C22_ColumnClasses ==
    DetailedReturned =>
        LET cols == db.cols[param]
            stats == ColumnStatsOf(param)
        IN  /\ \A i \in 1..Len(cols) :
                  /\ IF /\ i \in FirstOf(NumericPositions(param), 5)
                        /\ RangeAnswered("range_num", cols[i].name)
                     THEN NumericFields \subseteq DOMAIN stats[cols[i].name]
                     ELSE NumericFields \cap DOMAIN stats[cols[i].name] = {}
                  /\ IF /\ i \in FirstOf(DatePositions(param), 3)
                        /\ RangeAnswered("range_date", cols[i].name)
                     THEN DateFields \subseteq DOMAIN stats[cols[i].name]
                     ELSE DateFields \cap DOMAIN stats[cols[i].name] = {}
            /\ Cardinality({ c \in DOMAIN stats : "min" \in DOMAIN stats[c] }) <= 5
            /\ Cardinality({ c \in DOMAIN stats : "earliest" \in DOMAIN stats[c] }) <= 3
            /\ \A c \in DOMAIN stats :
                  ~("min" \in DOMAIN stats[c] /\ "earliest" \in DOMAIN stats[c])

\* six numeric columns, among them one of a type holding "int" and "time",
\* and four date-like ones: five carry a numeric range and three a date range
C22_Witness ==
    /\ DetailedReturned
    /\ Cardinality(NumericPositions(param)) = MaxNumeric
    /\ Cardinality(DatePositions(param)) = MaxDate
    /\ TypeHolds(db.cols[param][CHOOSE i \in NumericPositions(param) : db.cols[param][i].name = "n6"].type, DateKeywords)
    /\ "min" \in DOMAIN ColumnStatsOf(param)["n5"]
    /\ "min" \notin DOMAIN ColumnStatsOf(param)[NumericNames[MaxNumeric]]
    /\ "earliest" \in DOMAIN ColumnStatsOf(param)["d3"]
    /\ "earliest" \notin DOMAIN ColumnStatsOf(param)[DateNames[MaxDate]]
    /\ Cardinality({ c \in DOMAIN ColumnStatsOf(param) : "min" \in DOMAIN ColumnStatsOf(param)[c] }) = 5
    /\ Cardinality({ c \in DOMAIN ColumnStatsOf(param) : "earliest" \in DOMAIN ColumnStatsOf(param)[c] }) = 3

----------------------------------------------------------------------------
(* The relationship list of schema://all *)

\* a schema:// request for all tables has returned
SchemaAllReturned == Returned /\ op = "schema" /\ IsAll(param) /\ ~result.error

\* the outgoing foreign-key edges of every table of the catalog, in table
\* order
CatalogEdges ==
    Flatten(MapSeq(CatalogTableList,
                   LAMBDA t : MapSeq(db.fks[t],
                                     LAMBDA fk : [ from_table |-> t,
                                                   from_column |-> fk.from,
                                                   to_table |-> fk.table,
                                                   to_column |-> fk.to ])))

EdgeOf(rel) ==
    [ from_table |-> rel.from_table, from_column |-> rel.from_column,
      to_table |-> rel.to_table, to_column |-> rel.to_column ]

\* the relationship list, the totals and the table count of a schema://all
\* result that carries them
RelationshipsAsClaimed ==
    /\ MapSeq(result.relationships, EdgeOf) = CatalogEdges
    /\ result.database_summary.total_relationships = Len(result.relationships)
    /\ result.database_summary.total_relationships =
          SumSeq(MapSeq(CatalogTableList, LAMBDA t : Len(result.tables[t].foreign_keys)))
    /\ result.table_count = Cardinality(DOMAIN result.tables)

\* C23: in schema("all"), the relationships list contains exactly one entry
\* (from_table, from_column, to_table, to_column) per outgoing foreign-key
\* edge of every table in the catalog, in table order, with nothing else;
\* database_summary.total_relationships equals its length and the sum of
\* the per-table foreign_keys lengths, and table_count equals the number of
\* entries of tables.
C23_AllRelationships ==
    SchemaAllReturned =>
        /\ {"relationships", "database_summary"} \subseteq DOMAIN result
        /\ RelationshipsAsClaimed

\* C23 (amended): the same when the catalog lists at least one table; with
\* no table listed the result carries table_count = 0 and an empty tables
\* and neither relationships nor database_summary.
C23_AllRelationshipsUnlessEmpty ==
    SchemaAllReturned =>
        IF CatalogTableList = <<>>
        THEN /\ {"relationships", "database_summary"} \cap DOMAIN result = {}
             /\ result.table_count = 0
             /\ result.tables = <<>>
        ELSE /\ {"relationships", "database_summary"} \subseteq DOMAIN result
             /\ RelationshipsAsClaimed

\* two tables, the second one referencing the first and itself
C23_Witness ==
    /\ SchemaAllReturned
    /\ Len(CatalogTableList) = 2
    /\ Len(result.relationships) = 2
    /\ result.relationships[1].from_table = UserTables[2]
    /\ result.relationships[1].to_table = UserTables[1]
    /\ result.relationships[2].to_table = UserTables[2]
    /\ result.database_summary.total_relationships = 2

----------------------------------------------------------------------------
(* Column constraint tags *)

ColumnConstraintsOf(t) == result.constraints[t].column_constraints

IsFkTag(tag) == tag[1] = "FOREIGN KEY REFERENCES"

\* the tag of a foreign key: FOREIGN KEY REFERENCES t(r)
FkTag(table, column) == <<"FOREIGN KEY REFERENCES", table, column>>

\* C24: for every outgoing foreign-key edge of T on column c referencing
\* t(r), the tags of c hold "FOREIGN KEY REFERENCES t(r)"; a column's tags
\* hold PRIMARY KEY, NOT NULL and DEFAULT <literal> exactly when the column
\* flag or default is set, in that order, with the foreign-key tags after
\* them; and every table-level foreign_keys entry has a matching tag on its
\* column.
C24_ColumnTags ==
    ConstraintsReturned =>
        \A t \in DOMAIN result.constraints :
            /\ \A i \in 1..Len(db.fks[t]) :
                  FkTag(db.fks[t][i].table, db.fks[t][i].to)
                      \in Range(ColumnConstraintsOf(t)[db.fks[t][i].from].constraints)
            /\ \A i \in 1..Len(db.cols[t]) :
                  LET col == db.cols[t][i]
                      tags == ColumnConstraintsOf(t)[col.name].constraints
                      flags == SelectSeq(tags, LAMBDA tag : ~IsFkTag(tag))
                  IN  /\ (<<"PRIMARY KEY">> \in Range(tags)) <=> (col.pk # 0)
                      /\ (<<"NOT NULL">> \in Range(tags)) <=> col.notnull
                      /\ (\E tag \in Range(tags) : tag[1] = "DEFAULT") <=> (col.dflt # NoDefault)
                      /\ col.dflt # NoDefault => <<"DEFAULT", col.dflt>> \in Range(tags)
                      /\ flags = SelectSeq(<< <<"PRIMARY KEY">>, <<"NOT NULL">>, <<"DEFAULT", col.dflt>> >>,
                                           LAMBDA tag : tag \in Range(tags))
                      /\ tags = flags \o SelectSeq(tags, IsFkTag)
            /\ \A i \in 1..Len(TableConstraintsOf(t).foreign_keys) :
                  LET fk == TableConstraintsOf(t).foreign_keys[i]
                  IN  FkTag(fk.references_table, fk.references_column)
                          \in Range(ColumnConstraintsOf(t)[fk.column].constraints)

\* a primary-key column that is NOT NULL, has a default and carries two
\* foreign keys: five tags, the foreign keys last
C24_Witness ==
    /\ ConstraintsReturned
    /\ param = UserTables[1]
    /\ Len(ColumnConstraintsOf(param)["ref_a"].constraints) = 5
    /\ ColumnConstraintsOf(param)["ref_a"].constraints[1] = <<"PRIMARY KEY">>
    /\ ColumnConstraintsOf(param)["ref_a"].constraints[3] = <<"DEFAULT", "0">>
    /\ IsFkTag(ColumnConstraintsOf(param)["ref_a"].constraints[4])
    /\ IsFkTag(ColumnConstraintsOf(param)["ref_a"].constraints[5])
    /\ ColumnConstraintsOf(param)["id"].constraints = <<>>

----------------------------------------------------------------------------
(* Unique indexes reported as unique constraints *)

\* the index is unique, on one column, and that column is the whole
\* primary key of t
IsPrimaryKeyIndex(t, ix) ==
    /\ ix.unique
    /\ Len(ix.columns) = 1
    /\ ix.columns = PrimaryKeyOf(t)

\* C25: every unique index of T is reported as a unique constraint except a
\* single-column unique index whose column is T's primary key: every
\* multi-column unique index is reported, and so is a single-column unique
\* index on a column that is only one member of a composite primary key.
C25_UniqueIndexesReported ==
    ConstraintsReturned =>
        \A t \in DOMAIN result.constraints :
            UniqueConstraintsOf(t) =
                MapSeq(SelectSeq(db.idx[t],
                                 LAMBDA ix : ix.unique /\ ~IsPrimaryKeyIndex(t, ix)),
                       LAMBDA ix : [ constraint_name |-> ix.name,
                                     columns |-> ix.columns,
                                     constraint_type |-> "UNIQUE" ])

----------------------------------------------------------------------------
(* Existence guard and table list *)

\* the request was refused by the existence guard
RefusedByGuard == result.error /\ result.error_type = "table_not_found"

\* C26: the existence guard and the table list agree: a table name is
\* accepted by the guard of an operation if and only if it is a member of
\* the available-table list the same operation would report; internal
\* tables (names starting with sqlite_) are in neither, so a request naming
\* one yields table_not_found.
C26_GuardMatchesList ==
    (Returned /\ dbExists /\ AllOk /\ TableScoped) =>
        (RefusedByGuard <=> param \notin Range(ListTables(db)))

----------------------------------------------------------------------------
(* The all-tables mode *)

AllModeOps == {"schema", "relations", "stats", "constraints", "indexes"}

\* the per-table entries of a result
EntriesOf(res) ==
    CASE op = "schema"      -> res.tables
      [] op = "relations"   -> res.relationships
      [] op = "stats"       -> res.statistics
      [] op = "constraints" -> res.constraints
      [] op = "indexes"     -> res.indexes

\* the request ran in the all-tables mode: no guard, and a successful result
\* has one entry per listed table
RanAllMode ==
    /\ \A i \in 1..Len(log) : log[i].q # "exists"
    /\ ~result.error =>
          /\ DOMAIN EntriesOf(result) = Range(ListTables(db))
          /\ Len(ListTables(db)) = Cardinality(Range(ListTables(db)))

\* the request was handled as a table name: the first query on the
\* connection, if any, was the guard of that name
RanThroughGuard ==
    \A i \in 1..Len(log) :
        log[i].q \notin {"path_exists", "connect", "close"} =>
            \E j \in 1..i :
                /\ log[j].q = "exists" /\ log[j].t = param
                /\ \A k \in 1..(j - 1) : log[k].q \in {"path_exists", "connect"}

\* a request of one of the five operations has returned
AllModeCase == Returned /\ op \in AllModeOps

\* C27: for schema, relationships, statistics, constraints and indexes, the
\* all-tables mode is entered exactly when the parameter is the literal
\* "all"; in that mode the guard is skipped and the result has exactly one
\* entry per table of listTables().  Any other parameter, including one
\* that differs from "all" only in letter case, is handled as a table name
\* through the guard.
C27_AllLiteral ==
    AllModeCase => IF param = "all" THEN RanAllMode ELSE RanThroughGuard

\* C27 (amended): the all-tables mode is entered exactly when the
\* lower-cased parameter is "all", so for "ALL" too; any other parameter is
\* handled as a table name through the guard.
C27_AllIgnoringCase ==
    AllModeCase => IF Lower(param) = Spell("all") THEN RanAllMode ELSE RanThroughGuard

\* constraints://ALL returned one entry per listed table, without a guard
C27_Witness ==
    /\ AllModeCase
    /\ op = "constraints"
    /\ param = "ALL"
    /\ ~result.error
    /\ RanAllMode
    /\ Len(ListTables(db)) = MaxTables
    /\ Len(db.master) > MaxTables

----------------------------------------------------------------------------
(* Optimization hints *)

\* C28: the optimization hints are mutually consistent for every row
\* count: indexing_recommended is true exactly when full_table_scan_cost is
\* not "low", and exactly when join_performance is not "excellent".
C28_HintsConsistent ==
    DetailedBuilt =>
        /\ ret.optimization_hints.indexing_recommended
              <=> (ret.optimization_hints.full_table_scan_cost # "low")
        /\ ret.optimization_hints.indexing_recommended
              <=> (ret.optimization_hints.join_performance # "excellent")

----------------------------------------------------------------------------
(* Average and range of a numeric column *)

\* the integers a column of t holds
IntegersOf(t, c) ==
    MapSeq(SelectSeq(db.rows[t], LAMBDA r : r[c].k = "int"), LAMBDA r : r[c].v)

\* h is the mean of the values in hundredths, rounded to the nearest one
IsRoundedMean(h, values) ==
    LET diff == 100 * SumSeq(values) - h * Len(values)
    IN  2 * (IF diff < 0 THEN 0 - diff ELSE diff) <= Len(values)

\* C29: for each of the first 5 numeric columns whose range query succeeds,
\* average is null only when the column has no non-null value; whenever min
\* and max are non-null, average is the mean of the non-null values rounded
\* to 2 decimals (including a mean of 0) and range_size equals max - min.
C29_AverageAndRange ==
    DetailedReturned =>
        \A c \in DOMAIN ColumnStatsOf(param) :
            "min" \in DOMAIN ColumnStatsOf(param)[c] =>
                LET stats == ColumnStatsOf(param)[c]
                    values == IntegersOf(param, c)
                IN  /\ stats.average = NullVal => values = <<>>
                    /\ (stats.min # NullVal /\ stats.max # NullVal) =>
                          /\ stats.average.k = "float"
                          /\ IsRoundedMean(stats.average.v, values)
                          /\ stats.range_size = IntVal(stats.max.v - stats.min.v)

----------------------------------------------------------------------------
(* Parameter form and selection of the resources view *)

\* every selection handler has finished, and one has run
HandlersFinished ==
    /\ \A w \in Workers : workers[w].pc \in {"idle", "done"}
    /\ selected_resource # NoneObj

\* C30: once all selection handlers have finished, the parameter form
\* matches the selection: if the selected item is a template, the mounted
\* form is the single form built from that template's parameters, so the
\* URI built for reading has every {parameter} placeholder of the selected
\* template replaced by a form value; if the selected item is a static
\* resource, no form is kept and the resource's own URI is used; for any
\* order in which two selection handlers interleave at their await points.
C30_FormMatchesSelection ==
    HandlersFinished =>
        IF _is_resource_template(selected_resource)
        THEN /\ selected_template # NoneObj
             /\ dynamic_form # NoneObj
             /\ container = <<dynamic_form>>
             /\ dynamic_form.fields = FormFields(selected_template)
             /\ \A i \in 1..Len(_construct_resource_uri) :
                   _construct_resource_uri[i].kind # "param"
        ELSE /\ dynamic_form = NoneObj
             /\ container = <<>>
             /\ _construct_resource_uri = selected_resource.uri

====
